---------------------------- MODULE Spec2Model ----------------------------
(***************************************************************************)
(* Model of the beads_viewer export and actionable-view code:              *)
(*   - ComputeForceLayout            (src/unnamed/part_000, package export)*)
(*   - ActionableModel               (src/unnamed/part_000, package ui)    *)
(*   - GenerateMarkdown, SaveMarkdownToFile   (src/pkg/export/markdown.go) *)
(*   - SaveBeautifulGraphSnapshot and the two renderers                    *)
(*                             (src/pkg/export/graph_render_beautiful.go)  *)
(*                                                                         *)
(* Numbers.  The code computes in float64.  Here coordinates, velocities,  *)
(* radii and forces are integers (one canvas unit each), the temperature   *)
(* is kept in hundredths of a unit, AttractForce in thousandths and        *)
(* Damping in hundredths.  Division truncates toward zero, so that the     *)
(* arithmetic stays sign-symmetric as float64 arithmetic is.  The two      *)
(* float64 values that ordinary arithmetic does not reach, math.MaxFloat64 *)
(* and the infinities, are kept as distinguished values with the IEEE-754  *)
(* rules for them (FAdd, FSub, FHalf).                                     *)
(*                                                                         *)
(* Identifiers are sequences of one-character strings, so that the         *)
(* character filters of markdown.go can be computed on them.               *)
(*                                                                         *)
(* Issue fields that no modelled branch reads (Title, Description, ...)    *)
(* are left out; dependencies are non-nil.                                 *)
(***************************************************************************)
EXTENDS Integers, Sequences, FiniteSets, TLC

VARIABLES
    issues,         \* the caller's issue slice (its backing array)
    issues0,        \* history: the caller's issue slice as first handed over
    stats,          \* the caller's *analysis.GraphStats: PageRank and Betweenness maps
    opts,           \* the ForceLayoutOptions / GraphSnapshotOptions the caller passes
    pc,             \* position of the running call; "idle" between calls
    lo,             \* ComputeForceLayout: opts, the callee's copy after defaulting
    nodes,          \* ComputeForceLayout: the nodes slice
    edges,          \* ComputeForceLayout: the edges slice
    temperature,    \* ComputeForceLayout: annealing temperature (hundredths)
    iter,           \* ComputeForceLayout: loop counter
    rng,            \* state of the last math/rand generator created
    layout,         \* <<>> or <<l>>: the ForceLayout the last ComputeForceLayout returned
    prev,           \* <<>> or <<c>>: options and result of the ComputeForceLayout call before
    ret,            \* what the last other call returned (error, markdown, drawing)
    stack,          \* the caller of the running ComputeForceLayout: "" or "snapshot"
    plan,           \* ActionableModel.plan
    selectedTrack,  \* ActionableModel.selectedTrack
    selectedItem,   \* ActionableModel.selectedItem
    scrollOffset,   \* ActionableModel.scrollOffset
    width,          \* ActionableModel.width
    height          \* ActionableModel.height

layoutVars == <<pc, lo, nodes, edges, temperature, iter, rng, stack>>
callerVars == <<issues, issues0, stats, opts>>
uiVars == <<plan, selectedTrack, selectedItem, scrollOffset, width, height>>
vars == <<issues, issues0, stats, opts, pc, lo, nodes, edges, temperature, iter,
          rng, layout, prev, ret, stack, plan, selectedTrack, selectedItem,
          scrollOffset, width, height>>

-----------------------------------------------------------------------------
(* Bounds of the model *)

MaxIssues == 2
MaxDeps == 2
MaxSnapshotIssues == 1
MaxTracks == 2
MaxItems == 2

-----------------------------------------------------------------------------
(* Program constants *)

DefaultIterations == 300
DefaultRepelForce == 8000
DefaultAttractForce == 15
DefaultDamping == 85
DefaultMinNodeSize == 24
DefaultMaxNodeSize == 60
MinCanvas == 800
CanvasPerSqrtNode == 200
RngSeed == 42
CoolingPct == 97
Padding == 100
HeaderHeight == 100
RoomyMinNodeSize == 30
RoomyMaxNodeSize == 70
RoomyRepelForce == 12000
MinImageWidth == 800
MinImageHeight == 600
HashPrefix == 8
MaxFloat64 == 1000000000

PosInf == 2 * MaxFloat64
NegInf == -PosInf

-----------------------------------------------------------------------------
(* Arithmetic *)

Abs(x) == IF x < 0 THEN -x ELSE x

Max(a, b) == IF a > b THEN a ELSE b

\* float64 division, truncated toward zero
TDiv(a, b) ==
    IF b = 0 THEN 0
    ELSE IF (a >= 0) = (b > 0) THEN Abs(a) \div Abs(b)
    ELSE -(Abs(a) \div Abs(b))

RECURSIVE SqrtSearch(_, _, _)
SqrtSearch(x, low, high) ==
    IF low >= high THEN low
    ELSE LET mid == (low + high + 1) \div 2
         IN IF mid * mid <= x THEN SqrtSearch(x, mid, high)
            ELSE SqrtSearch(x, low, mid - 1)

\* math.Sqrt, rounded down
Sqrt(x) == IF x <= 0 THEN 0 ELSE SqrtSearch(x, 0, IF x < 46340 THEN x ELSE 46340)

IsInf(x) == x = PosInf \/ x = NegInf

\* float64 addition where math.MaxFloat64 and the infinities can occur:
\* an infinity absorbs, MaxFloat64 absorbs anything below its rounding step,
\* and a sum beyond MaxFloat64 overflows to the infinity of its sign.
FAdd(a, b) ==
    IF IsInf(a) THEN a
    ELSE IF IsInf(b) THEN b
    ELSE IF Abs(a) = MaxFloat64 /\ Abs(b) < MaxFloat64 THEN a
    ELSE IF Abs(b) = MaxFloat64 /\ Abs(a) < MaxFloat64 THEN b
    ELSE IF a + b > MaxFloat64 THEN PosInf
    ELSE IF a + b < -MaxFloat64 THEN NegInf
    ELSE a + b

FSub(a, b) == FAdd(a, -b)

FHalf(a) == IF IsInf(a) THEN a ELSE TDiv(a, 2)

-----------------------------------------------------------------------------
(* Data *)

\* identifiers the snapshots are built from, in issue order
IdSeq == << <<"a">>, <<"a", ".">>, <<"b">>, <<".">> >>

IssueID(i) == IdSeq[i]

\* an identifier no snapshot holds
Ghost == <<"z">>

StatusOpen == "open"
StatusInProgress == "in_progress"
StatusBlocked == "blocked"
StatusClosed == "closed"
Statuses == {StatusOpen, StatusInProgress, StatusBlocked, StatusClosed}

DepBlocks == "blocks"
DepRelated == "related"
DepTypes == {DepBlocks, DepRelated}

Range(s) == {s[i] : i \in 1..Len(s)}

\* the issueIDs map of ComputeForceLayout and of GenerateMarkdown
IssueIDs(iss) == {iss[i].ID : i \in 1..Len(iss)}

\* a Go map read: the zero value for a missing key
MapGet(m, k) == IF k \in DOMAIN m THEN m[k] ELSE 0

-----------------------------------------------------------------------------
(* ComputeForceLayout: options and construction, part_000 lines 61-161 *)

Defaulted(v, d) == IF v = 0 THEN d ELSE v

\* SetDefaults with the two node sizes defaulted as a pair, on MinNodeSize alone
SetDefaultsTogether(o) ==
    [o EXCEPT !.Iterations = Defaulted(@, DefaultIterations),
              !.RepelForce = Defaulted(@, DefaultRepelForce),
              !.AttractForce = Defaulted(@, DefaultAttractForce),
              !.Damping = Defaulted(@, DefaultDamping),
              !.MinNodeSize = Defaulted(@, DefaultMinNodeSize),
              !.MaxNodeSize = IF o.MinNodeSize = 0 THEN DefaultMaxNodeSize ELSE @]

\* lines 63-80
SetDefaults(o) ==
    [o EXCEPT !.Iterations = Defaulted(@, DefaultIterations),
              !.RepelForce = Defaulted(@, DefaultRepelForce),
              !.AttractForce = Defaulted(@, DefaultAttractForce),
              !.Damping = Defaulted(@, DefaultDamping),
              !.MinNodeSize = Defaulted(@, DefaultMinNodeSize),
              !.MaxNodeSize = Defaulted(@, DefaultMaxNodeSize)]

SetMax(S) ==
    IF S = {} THEN 0
    ELSE LET x == CHOOSE y \in S : \A z \in S : z <= y
         IN x

\* maxPR: the largest value of the PageRank map, 1 when that is 0
MaxPR(st) ==
    LET m == SetMax({st.PageRank[k] : k \in DOMAIN st.PageRank})
    IN IF m <= 0 THEN 1 ELSE m

\* canvasSize: math.Max(800, math.Sqrt(nodeCount)*200)
CanvasSize(n) == Max(MinCanvas, Sqrt(n * CanvasPerSqrtNode * CanvasPerSqrtNode))

\* math/rand: a generator is a state; Float64 steps it and yields a value in
\* [0, 1), here in thousandths.  (The generator is Go's library; this one has
\* the same interface: the seed fixes the whole sequence.)
NewSource(seed) == seed

RngStep(s) == (s * 75 + 74) % 65537

RngFloat(s) == (RngStep(s) * 1000) \div 65537

\* LayoutRng as a generator shared by all calls, seeded once
SharedRng == rng

\* the generator ComputeForceLayout draws from
LayoutRng == NewSource(RngSeed)

\* canvasSize/2 + (rng.Float64()-0.5)*canvasSize*0.8
Scatter(canvas, f) == canvas \div 2 + TDiv((f - 500) * canvas * 8, 10000)

\* the node of one issue, lines 110-129
MakeNode(is, st, o, canvas, s) ==
    LET pr == MapGet(st.PageRank, is.ID)
        importance == TDiv(pr * 700, MaxPR(st))
                      + TDiv(MapGet(st.Betweenness, is.ID) * 300, 1000)
        s1 == RngStep(s)
    IN [ID |-> is.ID,
        Status |-> is.Status,
        Priority |-> is.Priority,
        PageRank |-> pr,
        X |-> Scatter(canvas, RngFloat(s)),
        Y |-> Scatter(canvas, RngFloat(s1)),
        Vx |-> 0,
        Vy |-> 0,
        Radius |-> o.MinNodeSize + TDiv(importance * (o.MaxNodeSize - o.MinNodeSize), 1000)]

RECURSIVE BuildNodes(_, _, _, _, _)
BuildNodes(iss, st, o, canvas, s) ==
    IF iss = <<>> THEN <<>>
    ELSE <<MakeNode(Head(iss), st, o, canvas, s)>>
         \o BuildNodes(Tail(iss), st, o, canvas, RngStep(RngStep(s)))

RECURSIVE RngAfter(_, _)
RngAfter(s, n) == IF n = 0 THEN s ELSE RngAfter(RngStep(s), n - 1)

\* topNode, topNodeRank: the first issue of the largest positive PageRank
RECURSIVE TopOf(_, _, _)
TopOf(iss, st, best) ==
    IF iss = <<>> THEN best
    ELSE LET pr == MapGet(st.PageRank, Head(iss).ID)
         IN TopOf(Tail(iss), st,
                  IF pr > best.Rank THEN [Node |-> Head(iss).ID, Rank |-> pr] ELSE best)

TopNode(iss, st) == TopOf(iss, st, [Node |-> <<>>, Rank |-> 0])

\* KeepDep without the test on the target
KeepAnyDep(dep, ids) == TRUE

\* whether the dependency becomes an edge, line 142
KeepDep(dep, ids) == dep.DependsOnID \in ids

RECURSIVE DepEdges(_, _, _)
DepEdges(from, deps, ids) ==
    IF deps = <<>> THEN <<>>
    ELSE (IF KeepDep(Head(deps), ids)
          THEN <<[From |-> from, To |-> Head(deps).DependsOnID, Type |-> Head(deps).Type]>>
          ELSE <<>>)
         \o DepEdges(from, Tail(deps), ids)

RECURSIVE EdgesFrom(_, _)
EdgesFrom(iss, ids) ==
    IF iss = <<>> THEN <<>>
    ELSE DepEdges(Head(iss).ID, Head(iss).Dependencies, ids) \o EdgesFrom(Tail(iss), ids)

\* the edges slice, lines 134-151
BuildEdges(iss) == EdgesFrom(iss, IssueIDs(iss))

\* nodeMap[id]: the index of the node the map points to, 0 for nil
NodeMap(ns, id) ==
    LET hits == {i \in 1..Len(ns) : ns[i].ID = id}
    IN IF hits = {} THEN 0 ELSE CHOOSE i \in hits : \A j \in hits : j <= i

-----------------------------------------------------------------------------
(* ComputeForceLayout: one iteration of the simulation, lines 162-233 *)

\* lines 164-167
ResetVelocity(ns) == [i \in 1..Len(ns) |-> [ns[i] EXCEPT !.Vx = 0, !.Vy = 0]]

\* distance of a displacement, never below 1 (lines 176-179, 198-201)
Dist(dx, dy) == LET d == Sqrt(dx * dx + dy * dy) IN IF d < 1 THEN 1 ELSE d

\* the repulsion of node j on node i, lines 174-184
RepelPair(ns, i, j, o) ==
    LET dx == ns[i].X - ns[j].X
        dy == ns[i].Y - ns[j].Y
        dist == Dist(dx, dy)
        force == TDiv(o.RepelForce, dist * dist)
    IN [vx |-> TDiv(dx * force, dist), vy |-> TDiv(dy * force, dist)]

RECURSIVE RepelInner(_, _, _, _, _)
RepelInner(ns, i, j, o, acc) ==
    IF j > Len(ns) THEN acc
    ELSE IF i = j THEN RepelInner(ns, i, j + 1, o, acc)
    ELSE LET f == RepelPair(ns, i, j, o)
         IN RepelInner(ns, i, j + 1, o,
                       [acc EXCEPT !.Vx = @ + f.vx, !.Vy = @ + f.vy])

\* RepelLoop with every node moved as soon as its own repulsion is summed
RECURSIVE RepelAndMove(_, _, _)
RepelAndMove(ns, i, o) ==
    IF i > Len(ns) THEN ns
    ELSE LET n == RepelInner(ns, i, 1, o, ns[i])
         IN RepelAndMove([ns EXCEPT ![i] = [n EXCEPT !.X = @ + n.Vx, !.Y = @ + n.Vy]],
                         i + 1, o)

RepelLoopFused(ns, o) == RepelAndMove(ns, 1, o)

\* lines 169-186: node i's velocity takes the repulsion of every other node;
\* no position is written, so the outer loop's order does not matter
RepelLoop(ns, o) == [i \in 1..Len(ns) |-> RepelInner(ns, i, 1, o, ns[i])]

\* AttractEdge with coincident endpoints pushed apart along x instead of left alone
AttractEdgeJitter(ns, e, o) ==
    LET n1 == NodeMap(ns, e.From)
        n2 == NodeMap(ns, e.To)
    IN IF n1 = 0 \/ n2 = 0 THEN ns
       ELSE LET dx0 == ns[n2].X - ns[n1].X
                dy == ns[n2].Y - ns[n1].Y
                dx == IF dx0 = 0 /\ dy = 0 THEN 1 ELSE dx0
                dist == Dist(dx, dy)
                force == Max(1, TDiv(dist * o.AttractForce, 1000))
                fx == TDiv(dx * force, dist)
                fy == TDiv(dy * force, dist)
                pulled == [ns EXCEPT ![n1].Vx = @ + fx, ![n1].Vy = @ + fy]
            IN [pulled EXCEPT ![n2].Vy = @ - fy]

\* the attraction along one edge, lines 190-210
AttractEdge(ns, e, o) ==
    LET n1 == NodeMap(ns, e.From)
        n2 == NodeMap(ns, e.To)
    IN IF n1 = 0 \/ n2 = 0 THEN ns
       ELSE LET dx == ns[n2].X - ns[n1].X
                dy == ns[n2].Y - ns[n1].Y
                dist == Dist(dx, dy)
                force == TDiv(dist * o.AttractForce, 1000)
                fx == TDiv(dx * force, dist)
                fy == TDiv(dy * force, dist)
                pulled == [ns EXCEPT ![n1].Vx = @ + fx, ![n1].Vy = @ + fy]
            IN [pulled EXCEPT ![n2].Vx = @ - fx, ![n2].Vy = @ - fy]

RECURSIVE AttractLoop(_, _, _)
AttractLoop(ns, es, o) ==
    IF es = <<>> THEN ns
    ELSE AttractLoop(AttractEdge(ns, Head(es), o), Tail(es), o)

\* MoveNode without the limit of the temperature
MoveNodeUnlimited(n, temp, o) ==
    LET vx == TDiv(n.Vx * o.Damping, 100)
        vy == TDiv(n.Vy * o.Damping, 100)
    IN [n EXCEPT !.Vx = vx, !.Vy = vy, !.X = @ + vx, !.Y = @ + vy]

\* one node's move, lines 215-228
MoveNode(n, temp, o) ==
    LET disp == Sqrt(n.Vx * n.Vx + n.Vy * n.Vy)
        hot == disp * 100 > temp
        cx == IF hot THEN TDiv(n.Vx * temp, disp * 100) ELSE n.Vx
        cy == IF hot THEN TDiv(n.Vy * temp, disp * 100) ELSE n.Vy
        vx == TDiv(cx * o.Damping, 100)
        vy == TDiv(cy * o.Damping, 100)
    IN [n EXCEPT !.Vx = vx, !.Vy = vy, !.X = @ + vx, !.Y = @ + vy]

\* lines 214-229
ApplyLoop(ns, temp, o) == [i \in 1..Len(ns) |-> MoveNode(ns[i], temp, o)]

\* line 232
Cool(temp) == TDiv(temp * CoolingPct, 100)

-----------------------------------------------------------------------------
(* ComputeForceLayout: bounds, normalisation, order, lines 235-290 *)

RECURSIVE BoundsOf(_, _)
BoundsOf(ns, b) ==
    IF ns = <<>> THEN b
    ELSE LET n == Head(ns)
         IN BoundsOf(Tail(ns),
                     [minX |-> IF n.X - n.Radius < b.minX THEN n.X - n.Radius ELSE b.minX,
                      maxX |-> IF n.X + n.Radius > b.maxX THEN n.X + n.Radius ELSE b.maxX,
                      minY |-> IF n.Y - n.Radius < b.minY THEN n.Y - n.Radius ELSE b.minY,
                      maxY |-> IF n.Y + n.Radius > b.maxY THEN n.Y + n.Radius ELSE b.maxY])

\* lines 236-258
PaddedBounds(ns) ==
    LET b == BoundsOf(ns, [minX |-> MaxFloat64, maxX |-> -MaxFloat64,
                           minY |-> MaxFloat64, maxY |-> -MaxFloat64])
    IN [minX |-> FSub(b.minX, Padding), maxX |-> FAdd(b.maxX, Padding),
        minY |-> FSub(b.minY, Padding), maxY |-> FAdd(b.maxY, Padding)]

\* Normalize without the room for the header
NormalizeNoHeader(ns, b) ==
    [i \in 1..Len(ns) |->
        [ns[i] EXCEPT !.X = FSub(@, b.minX), !.Y = FSub(@, b.minY)]]

\* lines 265-268
Normalize(ns, b) ==
    [i \in 1..Len(ns) |->
        [ns[i] EXCEPT !.X = FSub(@, b.minX),
                      !.Y = FAdd(FSub(@, b.minY), HeaderHeight)]]

\* Less with the comparison turned around
LessDescending(a, b) == a.PageRank > b.PageRank

\* the less function of line 272
Less(a, b) == a.PageRank < b.PageRank

\* sort.Slice on a short slice is an insertion sort: an element moves left
\* past every neighbour it is less than
RECURSIVE Insert(_, _)
Insert(sorted, n) ==
    IF sorted = <<>> THEN <<n>>
    ELSE LET last == sorted[Len(sorted)]
         IN IF Less(n, last)
            THEN Insert(SubSeq(sorted, 1, Len(sorted) - 1), n) \o <<last>>
            ELSE sorted \o <<n>>

RECURSIVE SortSlice(_, _)
SortSlice(done, rest) ==
    IF rest = <<>> THEN done
    ELSE SortSlice(Insert(done, Head(rest)), Tail(rest))

SortNodes(ns) == SortSlice(<<>>, ns)

\* the returned ForceLayout, lines 260-290
MakeLayout(ns, es, o, t) ==
    LET b == PaddedBounds(ns)
        w == FSub(b.maxX, b.minX)
        h == FAdd(FSub(b.maxY, b.minY), HeaderHeight)
    IN [Nodes |-> SortNodes(Normalize(ns, b)),
        Edges |-> es,
        Width |-> w,
        Height |-> h,
        CenterX |-> FHalf(w),
        CenterY |-> FHalf(h),
        MinX |-> 0,
        MaxX |-> w,
        MinY |-> 0,
        MaxY |-> h,
        Title |-> o.Title,
        DataHash |-> o.DataHash,
        TopNode |-> t.Node,
        TopNodeRank |-> t.Rank]

-----------------------------------------------------------------------------
(* ComputeForceLayout as the steps of one call *)

\* strings.EqualFold(opts.Preset, "roomy")
IsRoomy(preset) == preset \in {"roomy", "Roomy", "ROOMY"}

\* strings.ToLower on the format and extension strings in use
LowerName(name) ==
    CASE name \in {"png", "PNG"} -> "png"
      [] name \in {"svg", "SVG"} -> "svg"
      [] OTHER -> name

\* lines 683-696: the options SaveBeautifulGraphSnapshot passes on
SnapshotLayoutOptions(o) ==
    LET base == [Iterations |-> 0, RepelForce |-> 0, AttractForce |-> 0, Damping |-> 0,
                 MinNodeSize |-> 0, MaxNodeSize |-> 0,
                 Title |-> o.Title, DataHash |-> o.DataHash]
    IN IF IsRoomy(o.Preset)
       THEN [base EXCEPT !.MinNodeSize = RoomyMinNodeSize,
                         !.MaxNodeSize = RoomyMaxNodeSize,
                         !.RepelForce = RoomyRepelForce]
       ELSE base

\* the ForceLayoutOptions fields of the caller's options
ForceOptions(o) ==
    [Iterations |-> o.Iterations, RepelForce |-> o.RepelForce,
     AttractForce |-> o.AttractForce, Damping |-> o.Damping,
     MinNodeSize |-> o.MinNodeSize, MaxNodeSize |-> o.MaxNodeSize,
     Title |-> o.Title, DataHash |-> o.DataHash]

\* lines 61-161: defaults, nodes, edges, initial temperature
EnterLayout(o, from) ==
    LET d == SetDefaults(o)
        canvas == CanvasSize(Len(issues))
    IN /\ lo' = d
       /\ nodes' = BuildNodes(issues, stats, d, canvas, LayoutRng)
       /\ rng' = RngAfter(LayoutRng, 2 * Len(issues))
       /\ edges' = BuildEdges(issues)
       /\ temperature' = (canvas * 100) \div 2
       /\ iter' = 0
       /\ stack' = from
       /\ pc' = "loop"
       /\ prev' = layout
       /\ layout' = <<>>
       /\ ret' = <<>>

ComputeForceLayoutCall ==
    /\ pc = "idle"
    /\ EnterLayout(ForceOptions(opts), "")
    /\ UNCHANGED <<callerVars, uiVars>>

\* lines 162-167: the loop test and the velocity reset
BeginIteration ==
    /\ pc = "loop"
    /\ iter < lo.Iterations
    /\ nodes' = ResetVelocity(nodes)
    /\ pc' = "repel"
    /\ UNCHANGED <<callerVars, uiVars, lo, edges, temperature, iter, rng, stack,
                   layout, prev, ret>>

\* lines 169-186
Repulsion ==
    /\ pc = "repel"
    /\ nodes' = RepelLoop(nodes, lo)
    /\ pc' = "attract"
    /\ UNCHANGED <<callerVars, uiVars, lo, edges, temperature, iter, rng, stack,
                   layout, prev, ret>>

\* lines 188-211
Attraction ==
    /\ pc = "attract"
    /\ nodes' = AttractLoop(nodes, edges, lo)
    /\ pc' = "apply"
    /\ UNCHANGED <<callerVars, uiVars, lo, edges, temperature, iter, rng, stack,
                   layout, prev, ret>>

\* lines 213-233
ApplyForces ==
    /\ pc = "apply"
    /\ nodes' = ApplyLoop(nodes, temperature, lo)
    /\ temperature' = Cool(temperature)
    /\ iter' = iter + 1
    /\ pc' = "loop"
    /\ UNCHANGED <<callerVars, uiVars, lo, edges, rng, stack, layout, prev, ret>>

\* the options the running ComputeForceLayout was called with
PassedOptions ==
    IF stack = "snapshot" THEN SnapshotLayoutOptions(opts) ELSE ForceOptions(opts)

\* lines 235-290: the loop has ended; the locals die with the return
ReturnLayout ==
    /\ pc = "loop"
    /\ iter >= lo.Iterations
    /\ layout' = <<[Issues |-> issues,
                    Opts |-> PassedOptions,
                    Out |-> MakeLayout(nodes, edges, lo, TopNode(issues, stats))]>>
    /\ pc' = IF stack = "snapshot" THEN "render" ELSE "idle"
    /\ lo' = <<>>
    /\ nodes' = <<>>
    /\ edges' = <<>>
    /\ temperature' = 0
    /\ iter' = 0
    /\ UNCHANGED <<callerVars, uiVars, rng, stack, prev, ret>>

-----------------------------------------------------------------------------
(* markdown.go *)

Lower == <<"a", "b", "c", "d", "e", "f", "g", "h", "i", "j", "k", "l", "m",
           "n", "o", "p", "q", "r", "s", "t", "u", "v", "w", "x", "y", "z">>
Upper == <<"A", "B", "C", "D", "E", "F", "G", "H", "I", "J", "K", "L", "M",
           "N", "O", "P", "Q", "R", "S", "T", "U", "V", "W", "X", "Y", "Z">>
Digits == {"0", "1", "2", "3", "4", "5", "6", "7", "8", "9"}

IsLetter(c) == c \in Range(Lower) \cup Range(Upper)
IsDigit(c) == c \in Digits

MermaidChar(c) == IsLetter(c) \/ IsDigit(c) \/ c = "-" \/ c = "_"

\* lines 17-29
sanitizeMermaidID(id) ==
    LET result == SelectSeq(id, MermaidChar)
    IN IF result = <<>> THEN <<"n", "o", "d", "e">> ELSE result

ToLower(c) ==
    IF c \in Range(Upper) THEN Lower[CHOOSE i \in 1..Len(Upper) : Upper[i] = c] ELSE c

SlugChar(c) == c \in Range(Lower) \cup Digits

\* lines 245-252: lower case, every run of other characters one hyphen, no
\* hyphen at either end
createSlug(id) ==
    LET low == [i \in 1..Len(id) |-> ToLower(id[i])]
        F[i \in 0..Len(low)] ==
            IF i = 0 THEN <<>>
            ELSE IF SlugChar(low[i]) THEN Append(F[i - 1], low[i])
            ELSE IF F[i - 1] = <<>> \/ F[i - 1][Len(F[i - 1])] = "-" THEN F[i - 1]
            ELSE Append(F[i - 1], "-")
        joined == F[Len(low)]
    IN IF joined # <<>> /\ joined[Len(joined)] = "-"
       THEN SubSeq(joined, 1, Len(joined) - 1)
       ELSE joined

\* lines 138-148
MermaidClass(status) ==
    CASE status = StatusOpen -> "open"
      [] status = StatusInProgress -> "inprogress"
      [] status = StatusBlocked -> "blocked"
      [] status = StatusClosed -> "closed"
      [] OTHER -> ""

\* lines 159-162
LinkStyle(type) == IF type = DepBlocks THEN "==>" ELSE "-.->"

\* whether the dependency gets an edge line, line 154
LinkDep(dep, ids) == dep.DependsOnID \in ids

RECURSIVE MermaidEdges(_, _, _)
MermaidEdges(safeID, deps, ids) ==
    IF deps = <<>> THEN <<>>
    ELSE (IF LinkDep(Head(deps), ids)
          THEN <<[Line |-> "edge", From |-> safeID, Style |-> LinkStyle(Head(deps).Type),
                  To |-> sanitizeMermaidID(Head(deps).DependsOnID)]>>
          ELSE <<>>)
         \o MermaidEdges(safeID, Tail(deps), ids)

\* the lines of one issue in the graph, lines 131-165
MermaidIssue(is, ids) ==
    LET safeID == sanitizeMermaidID(is.ID)
    IN <<[Line |-> "node", Node |-> safeID, Label |-> is.ID],
         [Line |-> "class", Node |-> safeID, Class |-> MermaidClass(is.Status)]>>
       \o MermaidEdges(safeID, is.Dependencies, ids)

RECURSIVE MermaidLines(_, _)
MermaidLines(iss, ids) ==
    IF iss = <<>> THEN <<>>
    ELSE MermaidIssue(Head(iss), ids) \o MermaidLines(Tail(iss), ids)

CountStatus(iss, status) == Cardinality({i \in 1..Len(iss) : iss[i].Status = status})

\* lines 71-242: the report, as its parts (the "Generated" line, which reads
\* the clock, and the free text of the issues are left out)
GenerateMarkdown(iss, title) ==
    LET graph == MermaidLines(iss, IssueIDs(iss))
        hasLinks == \E k \in 1..Len(graph) : graph[k].Line = "edge"
    IN [Title |-> title,
        Summary |-> [Total |-> Len(iss),
                     Open |-> CountStatus(iss, StatusOpen),
                     InProgress |-> CountStatus(iss, StatusInProgress),
                     Blocked |-> CountStatus(iss, StatusBlocked),
                     Closed |-> CountStatus(iss, StatusClosed)],
        Contents |-> [i \in 1..Len(iss) |->
                         [ID |-> iss[i].ID, Slug |-> createSlug(iss[i].ID)]],
        Graph |-> graph,
        NoLinks |-> ~hasLinks /\ Len(iss) > 0,
        Sections |-> [i \in 1..Len(iss) |->
                         [ID |-> iss[i].ID, Dependencies |-> iss[i].Dependencies]]]

\* ReportLess with the older issue first among equals
ReportLessOldestFirst(a, b) ==
    LET aClosed == a.Status = StatusClosed
        bClosed == b.Status = StatusClosed
    IN IF aClosed # bClosed THEN ~aClosed
       ELSE IF a.Priority # b.Priority THEN a.Priority < b.Priority
       ELSE a.CreatedAt < b.CreatedAt

\* the less function of SaveMarkdownToFile, lines 306-315, on two issues
ReportLess(a, b) ==
    LET aClosed == a.Status = StatusClosed
        bClosed == b.Status = StatusClosed
    IN IF aClosed # bClosed THEN ~aClosed
       ELSE IF a.Priority # b.Priority THEN a.Priority < b.Priority
       ELSE a.CreatedAt > b.CreatedAt

RECURSIVE ReportInsert(_, _)
ReportInsert(sorted, x) ==
    IF sorted = <<>> THEN <<x>>
    ELSE LET last == sorted[Len(sorted)]
         IN IF ReportLess(x, last)
            THEN ReportInsert(SubSeq(sorted, 1, Len(sorted) - 1), x) \o <<last>>
            ELSE sorted \o <<x>>

RECURSIVE ReportSortFrom(_, _)
ReportSortFrom(done, rest) ==
    IF rest = <<>> THEN done
    ELSE ReportSortFrom(ReportInsert(done, Head(rest)), Tail(rest))

\* sort.Slice(issues, ...), line 306: on a short slice an insertion sort
ReportSort(iss) == ReportSortFrom(<<>>, iss)

\* what the slice SaveMarkdownToFile was handed holds when it returns
SortedInPlace(iss) == ReportSort(iss)

GenerateMarkdownCall ==
    /\ pc = "idle"
    /\ ret' = <<[Kind |-> "markdown", Err |-> "",
                 Value |-> GenerateMarkdown(issues, opts.Title)]>>
    /\ UNCHANGED <<callerVars, uiVars, layoutVars, layout, prev>>

\* lines 304-323: the sort is on the caller's backing array; the write may fail
SaveMarkdownToFileCall ==
    /\ pc = "idle"
    /\ issues' = SortedInPlace(issues)
    /\ \E written \in BOOLEAN :
        ret' = <<[Kind |-> "file",
                  Err |-> IF written THEN "" ELSE "write",
                  Value |-> IF written
                            THEN GenerateMarkdown(issues', "Beads Export")
                            ELSE <<>>]>>
    /\ UNCHANGED <<issues0, stats, opts, uiVars, layoutVars, layout, prev>>

-----------------------------------------------------------------------------
(* graph_render_beautiful.go *)

\* int(f) of a float64: implementation-dependent for an infinity
IntOf(f) == IF IsInf(f) THEN {NegInf, 0, PosInf} ELSE {f}

AtLeast(v, least) == IF v < least THEN least ELSE v

\* the title line of both header cards
HeaderTitle(l) == IF l.Title = "" THEN "Dependency Graph" ELSE l.Title

HeaderTop(l) == IF l.TopNode # <<>> THEN <<l.TopNode, l.TopNodeRank>> ELSE <<>>

\* drawHeaderCard, lines 282-285: the guard on the hash
HashDrawnPNG(hash) == hash # <<>>

\* drawHeaderCardSVG, lines 307-310: the guard on the hash
HashDrawnSVG(hash) == hash # <<>> /\ Len(hash) >= HashPrefix

\* hash[:8] fails on a shorter string
SliceFails(hash) == Len(hash) < HashPrefix

\* the edges both renderers draw: those with both endpoints among the nodes
DrawnEdges(l) ==
    SelectSeq(l.Edges, LAMBDA e : NodeMap(l.Nodes, e.From) # 0 /\ NodeMap(l.Nodes, e.To) # 0)

\* the nodes in the order both renderers draw them: the order of the list
DrawnNodes(l) == [i \in 1..Len(l.Nodes) |-> [ID |-> l.Nodes[i].ID,
                                              Top |-> l.Nodes[i].ID = l.TopNode]]

Drawing(l, w, h, hash) ==
    [Width |-> AtLeast(w, MinImageWidth),
     Height |-> AtLeast(h, MinImageHeight),
     Header |-> [Title |-> HeaderTitle(l), Nodes |-> Len(l.Nodes),
                 Edges |-> Len(l.Edges), Top |-> HeaderTop(l), Hash |-> hash],
     Edges |-> DrawnEdges(l),
     Nodes |-> DrawnNodes(l)]

\* RenderForceLayoutPNG, lines 85-145: what it returns
RenderForceLayoutPNG(l, w, h, saved) ==
    IF HashDrawnPNG(l.DataHash) /\ SliceFails(l.DataHash)
    THEN [Kind |-> "png", Err |-> "panic", Value |-> <<>>]
    ELSE [Kind |-> "png", Err |-> IF saved THEN "" ELSE "io",
          Value |-> Drawing(l, w, h, IF HashDrawnPNG(l.DataHash)
                                     THEN SubSeq(l.DataHash, 1, HashPrefix) ELSE <<>>)]

\* RenderForceLayoutSVG and RenderForceLayoutSVGToWriter, lines 148-236
RenderForceLayoutSVG(l, w, h, created) ==
    IF ~created THEN [Kind |-> "svg", Err |-> "io", Value |-> <<>>]
    ELSE [Kind |-> "svg", Err |-> "",
          Value |-> Drawing(l, w, h, IF HashDrawnSVG(l.DataHash)
                                     THEN SubSeq(l.DataHash, 1, HashPrefix) ELSE <<>>)]

RenderForceLayoutPNGCall ==
    /\ pc = "idle"
    /\ layout # <<>>
    /\ \E w \in IntOf(layout[1].Out.Width) : \E h \in IntOf(layout[1].Out.Height) :
       \E saved \in BOOLEAN :
            ret' = <<RenderForceLayoutPNG(layout[1].Out, w, h, saved)>>
    /\ UNCHANGED <<callerVars, uiVars, layoutVars, layout, prev>>

RenderForceLayoutSVGCall ==
    /\ pc = "idle"
    /\ layout # <<>>
    /\ \E w \in IntOf(layout[1].Out.Width) : \E h \in IntOf(layout[1].Out.Height) :
       \E created \in BOOLEAN :
            ret' = <<RenderForceLayoutSVG(layout[1].Out, w, h, created)>>
    /\ UNCHANGED <<callerVars, uiVars, layoutVars, layout, prev>>

\* lines 700-709
SnapshotFormat(o) ==
    LET format == LowerName(o.Format)
        ext == LowerName(o.PathExt)
    IN IF format # "" THEN format
       ELSE IF ext = "png" \/ ext = "svg" THEN ext ELSE "svg"

\* lines 675-698: the guards, then the layout
SaveBeautifulGraphSnapshotCall ==
    /\ pc = "idle"
    /\ IF Len(issues) = 0
       THEN /\ ret' = <<[Kind |-> "snapshot", Err |-> "no issues to export", Value |-> <<>>]>>
            /\ UNCHANGED <<layoutVars, layout, prev>>
       ELSE EnterLayout(SnapshotLayoutOptions(opts), "snapshot")
    /\ UNCHANGED <<callerVars, uiVars>>

\* lines 700-723: the format, the directory, the renderer
ReturnSnapshot ==
    /\ pc = "render"
    /\ \E made \in BOOLEAN : \E w \in IntOf(layout[1].Out.Width) :
       \E h \in IntOf(layout[1].Out.Height) : \E done \in BOOLEAN :
            ret' = <<IF ~made
                     THEN [Kind |-> "snapshot", Err |-> "create dir", Value |-> <<>>]
                     ELSE CASE SnapshotFormat(opts) = "png" ->
                                    RenderForceLayoutPNG(layout[1].Out, w, h, done)
                            [] SnapshotFormat(opts) = "svg" ->
                                    RenderForceLayoutSVG(layout[1].Out, w, h, done)
                            [] OTHER ->
                                    [Kind |-> "snapshot", Err |-> "unsupported format",
                                     Value |-> <<>>]>>
    /\ pc' = "idle"
    /\ stack' = ""
    /\ UNCHANGED <<callerVars, uiVars, lo, nodes, edges, temperature, iter, rng,
                   layout, prev>>

-----------------------------------------------------------------------------
(* ActionableModel, part_000 lines 314-550 *)

NumTracks == Len(plan.Tracks)

ItemsOf(t) == plan.Tracks[t].Items

\* lines 389-407; tracks and items are counted from 0 as in the code
ensureVisible(track, item, offset) ==
    LET Before[i \in 0..track] ==
            IF i = 0 THEN 0 ELSE Before[i - 1] + 1 + Len(ItemsOf(i)) + 1
        lineNum == Before[track] + 1 + item
        visibleLines == IF height - 4 < 5 THEN 5 ELSE height - 4
    IN IF lineNum < offset THEN lineNum
       ELSE IF lineNum >= offset + visibleLines THEN lineNum - visibleLines + 1
       ELSE offset

\* MoveUp that enters the track before at its first item
MoveUpToFirst ==
    /\ IF NumTracks = 0
       THEN UNCHANGED <<selectedTrack, selectedItem, scrollOffset>>
       ELSE /\ IF selectedItem > 0
               THEN /\ selectedItem' = selectedItem - 1
                    /\ selectedTrack' = selectedTrack
               ELSE IF selectedTrack > 0
               THEN /\ selectedTrack' = selectedTrack - 1
                    /\ selectedItem' = 0
               ELSE UNCHANGED <<selectedTrack, selectedItem>>
            /\ scrollOffset' = ensureVisible(selectedTrack', selectedItem', scrollOffset)
    /\ ret' = <<>>
    /\ UNCHANGED <<callerVars, layoutVars, layout, prev, plan, width, height>>

\* lines 343-355
MoveUp ==
    /\ IF NumTracks = 0
       THEN UNCHANGED <<selectedTrack, selectedItem, scrollOffset>>
       ELSE /\ IF selectedItem > 0
               THEN /\ selectedItem' = selectedItem - 1
                    /\ selectedTrack' = selectedTrack
               ELSE IF selectedTrack > 0
               THEN /\ selectedTrack' = selectedTrack - 1
                    /\ selectedItem' = Len(ItemsOf(selectedTrack)) - 1
               ELSE UNCHANGED <<selectedTrack, selectedItem>>
            /\ scrollOffset' = ensureVisible(selectedTrack', selectedItem', scrollOffset)
    /\ ret' = <<>>
    /\ UNCHANGED <<callerVars, layoutVars, layout, prev, plan, width, height>>

\* MoveDown that wraps: from the last item of the last track to the first item
\* of the first
MoveDownWrap ==
    /\ IF NumTracks = 0
       THEN UNCHANGED <<selectedTrack, selectedItem, scrollOffset>>
       ELSE /\ IF selectedItem < Len(ItemsOf(selectedTrack + 1)) - 1
               THEN /\ selectedItem' = selectedItem + 1
                    /\ selectedTrack' = selectedTrack
               ELSE IF selectedTrack < NumTracks - 1
               THEN /\ selectedTrack' = selectedTrack + 1
                    /\ selectedItem' = 0
               ELSE /\ selectedTrack' = 0
                    /\ selectedItem' = 0
            /\ scrollOffset' = ensureVisible(selectedTrack', selectedItem', scrollOffset)
    /\ ret' = <<>>
    /\ UNCHANGED <<callerVars, layoutVars, layout, prev, plan, width, height>>

\* MoveDown without the test for the last track: past the last item of the
\* last track the item index still grows
MoveDownPastEnd ==
    /\ IF NumTracks = 0
       THEN UNCHANGED <<selectedTrack, selectedItem, scrollOffset>>
       ELSE /\ IF selectedItem < Len(ItemsOf(selectedTrack + 1)) - 1
               THEN /\ selectedItem' = selectedItem + 1
                    /\ selectedTrack' = selectedTrack
               ELSE IF selectedTrack < NumTracks - 1
               THEN /\ selectedTrack' = selectedTrack + 1
                    /\ selectedItem' = 0
               ELSE /\ selectedItem' = Len(ItemsOf(selectedTrack + 1))
                    /\ selectedTrack' = selectedTrack
            /\ scrollOffset' = ensureVisible(selectedTrack', selectedItem', scrollOffset)
    /\ ret' = <<>>
    /\ UNCHANGED <<callerVars, layoutVars, layout, prev, plan, width, height>>

\* lines 358-371
MoveDown ==
    /\ IF NumTracks = 0
       THEN UNCHANGED <<selectedTrack, selectedItem, scrollOffset>>
       ELSE /\ IF selectedItem < Len(ItemsOf(selectedTrack + 1)) - 1
               THEN /\ selectedItem' = selectedItem + 1
                    /\ selectedTrack' = selectedTrack
               ELSE IF selectedTrack < NumTracks - 1
               THEN /\ selectedTrack' = selectedTrack + 1
                    /\ selectedItem' = 0
               ELSE UNCHANGED <<selectedTrack, selectedItem>>
            /\ scrollOffset' = ensureVisible(selectedTrack', selectedItem', scrollOffset)
    /\ ret' = <<>>
    /\ UNCHANGED <<callerVars, layoutVars, layout, prev, plan, width, height>>

SizePool == {0, 7, 12}

\* lines 337-340
SetSize ==
    /\ \E w \in SizePool : \E h \in SizePool :
        /\ width' = w
        /\ height' = h
    /\ ret' = <<>>
    /\ UNCHANGED <<callerVars, layoutVars, layout, prev, plan, selectedTrack,
                   selectedItem, scrollOffset>>

\* an index expression out of range stops the program
Panic == <<"panic">>

\* lines 374-386
SelectedIssueID ==
    IF NumTracks = 0 THEN <<>>
    ELSE IF selectedTrack >= NumTracks THEN <<>>
    ELSE IF selectedItem >= Len(ItemsOf(selectedTrack + 1)) THEN <<>>
    ELSE IF selectedItem < 0 THEN Panic
    ELSE ItemsOf(selectedTrack + 1)[selectedItem + 1].ID

\* the lines of one item, 465-525
ItemLines(t, i) ==
    LET item == ItemsOf(t + 1)[i + 1]
        isSelected == t = selectedTrack /\ i = selectedItem
    IN <<[Line |-> "item", Track |-> t, Item |-> i, ID |-> item.ID,
          Selected |-> isSelected]>>
       \o (IF isSelected /\ Len(item.UnblocksIDs) > 0
           THEN <<[Line |-> "unblocks", Track |-> t, Item |-> i, ID |-> item.ID,
                   Selected |-> FALSE]>>
           ELSE <<>>)

Blank == [Line |-> "", Track |-> -1, Item |-> -1, ID |-> <<>>, Selected |-> FALSE]

TextLine(kind) == [Blank EXCEPT !.Line = kind]

\* the lines of one track, 456-528
TrackLines(t) ==
    LET n == Len(ItemsOf(t + 1))
        Items[i \in 0..n] == IF i = 0 THEN <<>> ELSE Items[i - 1] \o ItemLines(t, i - 1)
    IN <<[TextLine("track") EXCEPT !.Track = t]>> \o Items[n] \o <<Blank>>

\* lines 416-528: every line of the view, before scrolling
AllLines ==
    LET Tracks[t \in 0..NumTracks] ==
            IF t = 0 THEN <<>> ELSE Tracks[t - 1] \o TrackLines(t - 1)
    IN <<TextLine("header"), Blank>>
       \o (IF plan.Summary.HighestImpact # <<>> /\ plan.Summary.UnblocksCount > 0
           THEN <<TextLine("summary"), Blank>> ELSE <<>>)
       \o Tracks[NumTracks]

\* lines 531-542
StartLine ==
    LET visibleLines == IF height - 2 < 1 THEN 1 ELSE height - 2
        capped == IF scrollOffset > Len(AllLines) - visibleLines
                  THEN Len(AllLines) - visibleLines ELSE scrollOffset
    IN IF capped < 0 THEN 0 ELSE capped

\* lines 544-547
EndLine ==
    LET visibleLines == IF height - 2 < 1 THEN 1 ELSE height - 2
    IN IF StartLine + visibleLines > Len(AllLines) THEN Len(AllLines)
       ELSE StartLine + visibleLines

\* track.TrackID[6:], line 461, fails on a shorter identifier
TrackNameFails == \E t \in 1..NumTracks : Len(plan.Tracks[t].TrackID) < 6

\* Render without the branch for a plan of no tracks
RenderNoEmptyView ==
    IF width = 0 \/ height = 0 THEN [View |-> "", Lines |-> <<>>]
    ELSE [View |-> "list", Lines |-> SubSeq(AllLines, StartLine + 1, EndLine)]

\* lines 410-550
Render ==
    IF width = 0 \/ height = 0 THEN [View |-> "", Lines |-> <<>>]
    ELSE IF NumTracks = 0
    THEN [View |-> "empty",
          Lines |-> <<TextLine("header"), Blank, TextLine("No actionable items")>>]
    ELSE IF TrackNameFails THEN [View |-> "panic", Lines |-> <<>>]
    ELSE [View |-> "list", Lines |-> SubSeq(AllLines, StartLine + 1, EndLine)]

RenderCall ==
    /\ ret' = <<[Kind |-> "view", Err |-> "", Value |-> Render]>>
    /\ UNCHANGED <<callerVars, layoutVars, layout, prev, uiVars>>

-----------------------------------------------------------------------------
(* The caller's inputs *)

IndexOf(id) == CHOOSE i \in 1..Len(IdSeq) : IdSeq[i] = id

SnapshotIDs(n) == {IssueID(i) : i \in 1..n}

DepPool == [DependsOnID : SnapshotIDs(MaxIssues) \cup {Ghost}, Type : DepTypes]

\* dependencies with their owner's index, in owner order: the k dependencies of
\* a snapshot of n issues
OwnedDeps(n, k) ==
    {f \in [1..k -> [Owner : 1..n, Dep : DepPool]] :
        \A i \in 1..k : \A j \in i..k : f[i].Owner <= f[j].Owner}

RECURSIVE DepsOf(_, _)
DepsOf(f, i) ==
    IF f = <<>> THEN <<>>
    ELSE (IF Head(f).Owner = i THEN <<Head(f).Dep>> ELSE <<>>) \o DepsOf(Tail(f), i)

\* the dependency lists of n issues, MaxDeps dependencies in all
DepAssignments(n) ==
    IF n = 0 THEN {<<>>}
    ELSE {[i \in 1..n |-> DepsOf(f, i)] : f \in UNION {OwnedDeps(n, k) : k \in 0..MaxDeps}}

NoStats == [PageRank |-> <<>>, Betweenness |-> <<>>]

\* ranks falling with the issue order: the first issue is the most depended on
FallingRanks(n) ==
    [PageRank |-> [id \in SnapshotIDs(n) |-> n + 1 - IndexOf(id)],
     Betweenness |-> [id \in SnapshotIDs(n) |-> 0]]

RankPool == {0, 1, 2}
BetweennessPool == {0, 500}

ZeroOptions ==
    [Iterations |-> 0, RepelForce |-> 0, AttractForce |-> 0, Damping |-> 0,
     MinNodeSize |-> 0, MaxNodeSize |-> 0, Title |-> "", DataHash |-> <<>>,
     Preset |-> "", Format |-> "", PathExt |-> ""]

IterationChoices == {-1, 1, 2}

\* the default, a force that moves nodes a canvas apart by whole units, and
\* one that moves them further than the temperature allows
RepelChoices == {0, 4000000, 1600000000}

IdleLayout ==
    /\ pc = "idle"
    /\ lo = <<>>
    /\ nodes = <<>>
    /\ edges = <<>>
    /\ temperature = 0
    /\ iter = 0
    /\ rng = NewSource(RngSeed)
    /\ stack = ""
    /\ layout = <<>>
    /\ prev = <<>>
    /\ ret = <<>>

NoActionableModel ==
    /\ plan = <<>>
    /\ selectedTrack = 0
    /\ selectedItem = 0
    /\ scrollOffset = 0
    /\ width = 0
    /\ height = 0

\* snapshots of every dependency shape
InitShapes ==
    \E n \in 0..MaxIssues : \E d \in DepAssignments(n) : \E it \in IterationChoices :
        /\ issues = [i \in 1..n |->
                        [ID |-> IssueID(i), Status |-> StatusOpen, Priority |-> 2,
                         CreatedAt |-> i, Dependencies |-> d[i]]]
        /\ stats = FallingRanks(n)
        /\ opts = [ZeroOptions EXCEPT !.Iterations = it]

\* snapshots of every centrality result
InitRanks ==
    \E n \in 1..MaxIssues :
    \E pr \in [SnapshotIDs(n) -> RankPool] :
    \E bt \in [SnapshotIDs(n) -> BetweennessPool] :
    \E rf \in RepelChoices : \E it \in IterationChoices \ {-1} :
        /\ issues = [i \in 1..n |->
                        [ID |-> IssueID(i), Status |-> StatusOpen, Priority |-> 2,
                         CreatedAt |-> i,
                         Dependencies |-> IF i = 1 THEN <<>>
                                          ELSE <<[DependsOnID |-> IssueID(i - 1),
                                                  Type |-> DepBlocks]>>]]
        /\ stats = [PageRank |-> pr, Betweenness |-> bt]
        /\ opts = [ZeroOptions EXCEPT !.Iterations = it, !.RepelForce = rf]

NoCaller ==
    /\ issues = <<>>
    /\ stats = NoStats
    /\ opts = ZeroOptions

Init ==
    /\ InitShapes \/ InitRanks
    /\ issues0 = issues
    /\ IdleLayout
    /\ NoActionableModel

LayoutSteps ==
    \/ BeginIteration
    \/ Repulsion
    \/ Attraction
    \/ ApplyForces
    \/ ReturnLayout

Next ==
    \/ ComputeForceLayoutCall
    \/ LayoutSteps
    \/ GenerateMarkdownCall
    \/ RenderForceLayoutPNGCall
    \/ RenderForceLayoutSVGCall

Spec == Init /\ [][Next]_vars

-----------------------------------------------------------------------------
(* The report: snapshots of every status, priority and age *)

PriorityPool == {0, 1}
CreatedPool == {1, 2}

InitReports ==
    \E n \in 0..MaxIssues :
    \E st \in [1..n -> Statuses] :
    \E pr \in [1..n -> PriorityPool] :
    \E at \in [1..n -> CreatedPool] :
        /\ issues = [i \in 1..n |->
                        [ID |-> IssueID(i), Status |-> st[i], Priority |-> pr[i],
                         CreatedAt |-> at[i],
                         Dependencies |-> IF i = 1 THEN <<>>
                                          ELSE <<[DependsOnID |-> IssueID(1),
                                                  Type |-> DepRelated]>>]]
        /\ stats = FallingRanks(n)
        /\ opts = [ZeroOptions EXCEPT !.Iterations = 1]

InitMd ==
    /\ InitReports
    /\ issues0 = issues
    /\ IdleLayout
    /\ NoActionableModel

NextMd ==
    \/ GenerateMarkdownCall
    \/ SaveMarkdownToFileCall
    \/ ComputeForceLayoutCall
    \/ LayoutSteps

SpecMd == InitMd /\ [][NextMd]_vars

-----------------------------------------------------------------------------
(* The snapshot export: every preset, format and hash *)

PresetPool == {"", "Roomy"}
FormatPool == {"", "PNG", "pdf"}
PathExtPool == {"png", "txt"}
DataHashPool == {<<>>, <<"a", "b", "c">>,
                 <<"0", "1", "2", "3", "4", "5", "6", "7", "8">>}

InitSnapshots ==
    \E n \in 0..MaxSnapshotIssues :
    \E preset \in PresetPool : \E format \in FormatPool :
    \E ext \in PathExtPool : \E hash \in DataHashPool :
        /\ issues = [i \in 1..n |->
                        [ID |-> IssueID(i), Status |-> StatusOpen, Priority |-> 2,
                         CreatedAt |-> i,
                         Dependencies |-> IF i = 1 THEN <<>>
                                          ELSE <<[DependsOnID |-> IssueID(i - 1),
                                                  Type |-> DepBlocks]>>]]
        /\ stats = FallingRanks(n)
        /\ opts = [ZeroOptions EXCEPT !.Iterations = 2, !.Preset = preset,
                                      !.Format = format, !.PathExt = ext,
                                      !.DataHash = hash, !.Title = "Beads"]

InitSnapshot ==
    /\ InitSnapshots
    /\ issues0 = issues
    /\ IdleLayout
    /\ NoActionableModel

NextSnapshot ==
    \/ ComputeForceLayoutCall
    \/ SaveBeautifulGraphSnapshotCall
    \/ LayoutSteps
    \/ ReturnSnapshot

SpecSnapshot == InitSnapshot /\ [][NextSnapshot]_vars

-----------------------------------------------------------------------------
(* The layout options: every subset of them supplied, the rest left at zero *)

OptionNames ==
    {"Iterations", "RepelForce", "AttractForce", "Damping", "MinNodeSize", "MaxNodeSize"}

\* a positive value for each option, none of them its default
SuppliedOptions ==
    [Iterations |-> 2, RepelForce |-> 4000000, AttractForce |-> 30, Damping |-> 50,
     MinNodeSize |-> 10, MaxNodeSize |-> 80]

LabelPool == {[Title |-> "", DataHash |-> <<>>],
              [Title |-> "Beads", DataHash |-> <<"a", "b", "c">>]}

InitOptions ==
    \E n \in 1..MaxSnapshotIssues : \E given \in SUBSET OptionNames :
    \E label \in LabelPool : \E preset \in PresetPool :
        /\ issues = [i \in 1..n |->
                        [ID |-> IssueID(i), Status |-> StatusOpen, Priority |-> 2,
                         CreatedAt |-> i,
                         Dependencies |-> IF i = 1 THEN <<>>
                                          ELSE <<[DependsOnID |-> IssueID(i - 1),
                                                  Type |-> DepBlocks]>>]]
        /\ stats = FallingRanks(n)
        /\ opts = [f \in DOMAIN ZeroOptions |->
                        IF f \in given THEN SuppliedOptions[f]
                        ELSE IF f = "Title" THEN label.Title
                        ELSE IF f = "DataHash" THEN label.DataHash
                        ELSE IF f = "Preset" THEN preset
                        ELSE ZeroOptions[f]]

InitOption ==
    /\ InitOptions
    /\ issues0 = issues
    /\ IdleLayout
    /\ NoActionableModel

NextOptions ==
    \/ ComputeForceLayoutCall
    \/ SaveBeautifulGraphSnapshotCall
    \/ LayoutSteps
    \/ ReturnSnapshot

SpecOptions == InitOption /\ [][NextOptions]_vars

-----------------------------------------------------------------------------
(* The actionable view: every plan shape *)

TrackIDOf(t) == <<"t", "r", "a", "c", "k", "-", Upper[t]>>

ItemIDOf(t, i) == <<Lower[t], Lower[i]>>

UnblockPatterns == {"none", "all", "first", "last"}

Unblocks(pattern, i, n) ==
    IF \/ pattern = "all"
       \/ pattern = "first" /\ i = 1
       \/ pattern = "last" /\ i = n
    THEN <<Ghost>> ELSE <<>>

PlanOf(shape, pattern, banner) ==
    [Tracks |-> [t \in 1..Len(shape) |->
                    [TrackID |-> TrackIDOf(t),
                     Reason |-> "",
                     Items |-> [i \in 1..shape[t] |->
                                   [ID |-> ItemIDOf(t, i), Priority |-> i,
                                    UnblocksIDs |-> Unblocks(pattern, i, shape[t])]]]],
     Summary |-> IF banner
                 THEN [HighestImpact |-> ItemIDOf(1, 1), ImpactReason |-> "unblocks",
                       UnblocksCount |-> 1]
                 ELSE [HighestImpact |-> <<>>, ImpactReason |-> "", UnblocksCount |-> 0]]

\* NewActionableModel, lines 326-334
NewActionableModel(p) ==
    /\ plan = p
    /\ selectedTrack = 0
    /\ selectedItem = 0
    /\ scrollOffset = 0
    /\ width = 0
    /\ height = 0

InitUI ==
    /\ \E t \in 0..MaxTracks : \E shape \in [1..t -> 0..MaxItems] :
       \E pattern \in UnblockPatterns : \E banner \in BOOLEAN :
        /\ banner => t > 0 /\ shape[1] > 0
        /\ NewActionableModel(PlanOf(shape, pattern, banner))
    /\ NoCaller
    /\ issues0 = issues
    /\ IdleLayout

NextUI ==
    \/ MoveUp
    \/ MoveDown
    \/ SetSize
    \/ RenderCall

SpecUI == InitUI /\ [][NextUI]_vars

-----------------------------------------------------------------------------
(* ComputeForceLayout as a function of its inputs, lines 61-291 *)

RECURSIVE Simulate(_, _, _, _, _)
Simulate(ns, es, o, temp, k) ==
    IF k >= o.Iterations THEN ns
    ELSE Simulate(ApplyLoop(AttractLoop(RepelLoop(ResetVelocity(ns), o), es, o), temp, o),
                  es, o, Cool(temp), k + 1)

ComputeForceLayout(iss, st, o) ==
    LET d == SetDefaults(o)
        canvas == CanvasSize(Len(iss))
        es == BuildEdges(iss)
    IN MakeLayout(Simulate(BuildNodes(iss, st, d, canvas, LayoutRng), es, d,
                           (canvas * 100) \div 2, 0),
                  es, d, TopNode(iss, st))

-----------------------------------------------------------------------------
(* Claims *)

Simulating == pc \in {"loop", "repel", "attract", "apply"}

Returned == layout # <<>>

Out == layout[1].Out

\* every dependency of the snapshot as an edge, in issue order, then
\* dependency order
AllDependencies(iss) ==
    LET F[i \in 0..Len(iss)] ==
            IF i = 0 THEN <<>>
            ELSE F[i - 1] \o [k \in 1..Len(iss[i].Dependencies) |->
                                [From |-> iss[i].ID,
                                 To |-> iss[i].Dependencies[k].DependsOnID,
                                 Type |-> iss[i].Dependencies[k].Type]]
    IN F[Len(iss)]

LiveDependencies(iss) ==
    SelectSeq(AllDependencies(iss), LAMBDA e : \E i \in 1..Len(iss) : iss[i].ID = e.To)

EdgeLines(graph) == SelectSeq(graph, LAMBDA l : l.Line = "edge")

Markdown == ret # <<>> /\ ret[1].Kind = "markdown"

\* C1: the edges ComputeForceLayout simulates and returns are exactly the
\* dependencies whose target is an issue of the snapshot, in issue order and
\* then dependency order, so a dependency on an absent issue is no edge and
\* pulls nothing; GenerateMarkdown writes an edge line for exactly the same
\* dependencies.
C1_EdgesAreLiveDependencies ==
    /\ Simulating => edges = LiveDependencies(issues)
    /\ Returned => Out.Edges = LiveDependencies(layout[1].Issues)
    /\ Markdown =>
        LET live == LiveDependencies(issues)
            lines == EdgeLines(ret[1].Value.Graph)
        IN /\ Len(lines) = Len(live)
           /\ \A k \in 1..Len(live) :
                /\ lines[k].From = sanitizeMermaidID(live[k].From)
                /\ lines[k].To = sanitizeMermaidID(live[k].To)
                /\ lines[k].Style = IF live[k].Type = DepBlocks THEN "==>" ELSE "-.->"

HasDangling(iss) == Len(LiveDependencies(iss)) < Len(AllDependencies(iss))

\* a layout and a report of a snapshot that holds a dependency on an absent
\* issue next to one on a present issue
C1_Witness ==
    /\ Returned /\ Markdown
    /\ HasDangling(issues)
    /\ Out.Edges # <<>>
    /\ EdgeLines(ret[1].Value.Graph) # <<>>

NoDuplicates(es) == \A i \in 1..Len(es) : \A j \in 1..Len(es) : es[i] = es[j] => i = j

\* the edges with every repeated (From, To, Type) dropped after its first
Distinct(es) ==
    LET F[i \in 0..Len(es)] ==
            IF i = 0 THEN <<>>
            ELSE IF \E j \in 1..(i - 1) : es[j] = es[i] THEN F[i - 1]
            ELSE Append(F[i - 1], es[i])
    IN F[Len(es)]

\* C2: a dependency listed more than once is evaluated once: the returned
\* edges hold each (From, To, Type) at most once, and the attraction step of
\* every iteration pulls as the distinct edges alone would.
C2_DuplicatesEvaluatedOnce ==
    [][/\ pc = "attract" => nodes' = AttractLoop(nodes, Distinct(edges), lo)
       /\ layout' # <<>> => NoDuplicates(layout'[1].Out.Edges)]_vars

\* C3: a call with a negative Iterations does not come back with an ordinary
\* layout (it is refused as a configuration error).
C3_NegativeIterationsRefused == ~(Returned /\ layout[1].Opts.Iterations < 0)

Finite(x) == ~IsInf(x) /\ Abs(x) # MaxFloat64

\* C4: the empty snapshot is laid out without error, directly and through
\* SaveBeautifulGraphSnapshot: no node, no edge, a finite non-negative size of
\* the minimum canvas, MinX <= MaxX and MinY <= MaxY.
C4_EmptySnapshotIsValid ==
    Len(issues) = 0 =>
        /\ Returned =>
            /\ Out.Nodes = <<>> /\ Out.Edges = <<>>
            /\ Finite(Out.Width) /\ Finite(Out.Height)
            /\ Out.Width = MinCanvas /\ Out.Height = MinCanvas
            /\ Out.MinX <= Out.MaxX /\ Out.MinY <= Out.MaxY
        /\ ret # <<>> => ret[1].Err # "no issues to export"

WithoutSelfLoops(iss) ==
    [i \in 1..Len(iss) |->
        [iss[i] EXCEPT !.Dependencies =
            SelectSeq(@, LAMBDA dep : dep.DependsOnID # iss[i].ID)]]

HasSelfLoop(iss) == WithoutSelfLoops(iss) # iss

\* C5: a dependency of an issue on itself pulls nothing: every attraction
\* step leaves the velocities it would leave with the self-dependencies taken
\* out of the snapshot, and the returned nodes are those of the layout of
\* that snapshot.
C5_SelfLoopPullsNothing ==
    [][/\ pc = "attract" =>
            nodes' = AttractLoop(nodes, BuildEdges(WithoutSelfLoops(issues)), lo)
       /\ (layout' # <<>> /\ layout' # layout) =>
            layout'[1].Out.Nodes =
                ComputeForceLayout(WithoutSelfLoops(layout'[1].Issues), stats,
                                   layout'[1].Opts).Nodes]_vars

\* a returned layout, simulated, of a snapshot with a self-dependency and a
\* second issue
C5_Witness ==
    /\ Returned
    /\ HasSelfLoop(layout[1].Issues)
    /\ layout[1].Opts.Iterations > 0
    /\ Len(Out.Nodes) > 1
    /\ \E k \in 1..Len(Out.Edges) : Out.Edges[k].From = Out.Edges[k].To

\* C6: no operation writes to the caller's issue list: between calls it holds
\* the issues it was handed, in the same order.
C6_IssuesNotWritten == pc = "idle" => issues = issues0

Position(ns) == [i \in 1..Len(ns) |-> <<ns[i].X, ns[i].Y>>]

Velocity(ns) == [i \in 1..Len(ns) |-> <<ns[i].Vx, ns[i].Vy>>]

\* C7: within an iteration no position is written before every force is
\* summed: the reset, repulsion and attraction steps leave all positions as the
\* iteration before left them, so the velocities the move starts from are the
\* forces of those positions, and each node then moves by its own velocity.
C7_ForcesBeforeMoves ==
    [][/\ pc \in {"repel", "attract"} \/ (pc = "loop" /\ pc' = "repel") =>
            Position(nodes') = Position(nodes)
       /\ pc = "apply" =>
            /\ Velocity(nodes) =
                 Velocity(AttractLoop(RepelLoop(ResetVelocity(nodes), lo), edges, lo))
            /\ \A i \in 1..Len(nodes) :
                 /\ nodes'[i].X = nodes[i].X + nodes'[i].Vx
                 /\ nodes'[i].Y = nodes[i].Y + nodes'[i].Vy]_vars

\* the move of the second iteration about to happen, with a node both pushed
\* by another node and pulled along an edge
C7_Witness ==
    /\ pc = "apply"
    /\ iter = 1
    /\ Len(nodes) > 1
    /\ edges # <<>>
    /\ \E i \in 1..Len(nodes) :
        LET repelled == RepelLoop(ResetVelocity(nodes), lo)[i]
        IN /\ repelled.Vx # 0 \/ repelled.Vy # 0
           /\ nodes[i].Vx # repelled.Vx \/ nodes[i].Vy # repelled.Vy

\* C8: two calls of ComputeForceLayout with the same issues, centrality and
\* options return the same layout: nodes in the same order with the same
\* coordinates and radii, the same edges, width and height.
C8_Deterministic ==
    (Returned /\ prev # <<>>
        /\ prev[1].Issues = layout[1].Issues /\ prev[1].Opts = layout[1].Opts)
    => prev[1].Out = Out

\* a second layout of a snapshot of two issues or more
C8_Witness ==
    /\ Returned /\ prev # <<>>
    /\ prev[1].Issues = layout[1].Issues /\ prev[1].Opts = layout[1].Opts
    /\ Len(Out.Nodes) > 1
    /\ layout[1].Opts.Iterations > 0

Drawn == ret # <<>> /\ ret[1].Kind \in {"png", "svg"} /\ ret[1].Err = ""

\* C9: the returned nodes are the issues, one node each, in ascending
\* PageRank order, and both renderers draw the nodes in the order of the list.
C9_AscendingPageRank ==
    /\ Returned =>
        /\ Len(Out.Nodes) = Len(layout[1].Issues)
        /\ \A i \in 1..Len(layout[1].Issues) :
             Cardinality({k \in 1..Len(Out.Nodes) :
                            Out.Nodes[k].ID = layout[1].Issues[i].ID}) = 1
        /\ \A i \in 1..Len(Out.Nodes) : \A j \in i..Len(Out.Nodes) :
             Out.Nodes[i].PageRank <= Out.Nodes[j].PageRank
    /\ Drawn =>
        /\ Len(ret[1].Value.Nodes) = Len(Out.Nodes)
        /\ \A k \in 1..Len(Out.Nodes) : ret[1].Value.Nodes[k].ID = Out.Nodes[k].ID
        /\ \A i \in 1..Len(Out.Nodes) : \A j \in i..Len(Out.Nodes) :
             MapGet(stats.PageRank, ret[1].Value.Nodes[i].ID)
                <= MapGet(stats.PageRank, ret[1].Value.Nodes[j].ID)

\* a drawing of a layout whose nodes the sort has put in another order than
\* the issues
C9_Witness ==
    /\ Returned /\ Drawn
    /\ Len(Out.Nodes) > 1
    /\ Out.Nodes[1].ID # layout[1].Issues[1].ID
    /\ Out.Nodes[1].PageRank < Out.Nodes[Len(Out.Nodes)].PageRank

\* C10 as written: with a plan of no tracks the selection never moves,
\* SelectedIssueID is empty and Render returns the "no actionable items" view.
C10_EmptyPlanAlwaysRendersNotice ==
    NumTracks = 0 =>
        /\ selectedTrack = 0 /\ selectedItem = 0 /\ scrollOffset = 0
        /\ SelectedIssueID = <<>>
        /\ Render.View = "empty"

\* C10, amended: with a plan of no tracks the selection never moves,
\* SelectedIssueID is empty, and Render returns the "no actionable items" view
\* once SetSize has given a non-zero width and height; with a zero width or
\* height (as NewActionableModel leaves them) Render returns the empty string.
C10_EmptyPlanRendersNoticeOnceSized ==
    NumTracks = 0 =>
        /\ selectedTrack = 0 /\ selectedItem = 0 /\ scrollOffset = 0
        /\ SelectedIssueID = <<>>
        /\ Render.View = IF width = 0 \/ height = 0 THEN "" ELSE "empty"
        /\ Render.View = "empty" =>
             \E k \in 1..Len(Render.Lines) : Render.Lines[k].Line = "No actionable items"

\* the view of a sized model of no tracks, rendered
C10_Witness ==
    /\ NumTracks = 0
    /\ width # 0 /\ height # 0
    /\ ret # <<>> /\ ret[1].Kind = "view" /\ ret[1].Value.View = "empty"

-----------------------------------------------------------------------------
(* The execution planner (package analysis), whose plan ActionableModel     *)
(* shows.  Its code is not among the sources; it is modelled from sections  *)
(* 3, 4.1 and 4.3 of the specification.                                     *)

\* byte order of the characters identifiers are made of
Ascii == <<"-", ".", "0", "1", "2", "3", "4", "5", "6", "7", "8", "9">>
         \o Upper \o <<"_">> \o Lower

CharCode(c) == CHOOSE i \in 1..Len(Ascii) : Ascii[i] = c

\* string comparison of two identifiers
RECURSIVE IdLess(_, _)
IdLess(a, b) ==
    IF a = <<>> THEN b # <<>>
    ELSE IF b = <<>> THEN FALSE
    ELSE IF Head(a) = Head(b) THEN IdLess(Tail(a), Tail(b))
    ELSE CharCode(Head(a)) < CharCode(Head(b))

\* 4.1: the graph keeps the edges whose target is in the snapshot
IndexOfID(iss, id) == CHOOSE k \in 1..Len(iss) : iss[k].ID = id

ForwardEdges(iss, i) ==
    {[To |-> IndexOfID(iss, iss[i].Dependencies[k].DependsOnID),
      Type |-> iss[i].Dependencies[k].Type] :
        k \in {k \in 1..Len(iss[i].Dependencies) :
                 iss[i].Dependencies[k].DependsOnID \in IssueIDs(iss)}}

\* the issues a Blocks dependency of issue i points at
Blockers(iss, i) == {e.To : e \in {e \in ForwardEdges(iss, i) : e.Type = DepBlocks}}

\* IsActionable with a dependency of either kind taken for a blocker
IsActionableAnyKind(iss, i) ==
    /\ iss[i].Status \in {StatusOpen, StatusInProgress}
    /\ \A e \in ForwardEdges(iss, i) : iss[e.To].Status = StatusClosed

\* 4.3, actionability
IsActionable(iss, i) ==
    /\ iss[i].Status \in {StatusOpen, StatusInProgress}
    /\ \A b \in Blockers(iss, i) : iss[b].Status = StatusClosed

Actionable(iss) == {i \in 1..Len(iss) : IsActionable(iss, i)}

\* reverse Blocks adjacency: the issues blocked by one of S
Dependents(iss, S) == {j \in 1..Len(iss) : Blockers(iss, j) \cap S # {}}

RECURSIVE ReverseReach(_, _, _)
ReverseReach(iss, frontier, seen) ==
    IF frontier = {} THEN seen
    ELSE LET next == Dependents(iss, frontier) \ seen
         IN ReverseReach(iss, next, seen \cup next)

\* UnblockSet of the direct dependents alone
UnblockSetDirect(iss, i) ==
    {j \in Dependents(iss, {i}) : iss[j].Status # StatusClosed}

\* 4.3, impact: what is reached over reverse Blocks edges and is not closed
UnblockSet(iss, i) ==
    {j \in ReverseReach(iss, {i}, {}) : iss[j].Status # StatusClosed}

\* the set as the list of identifiers a PlanItem carries, in snapshot order
UnblocksIDs(iss, i) ==
    LET F[k \in 0..Len(iss)] ==
            IF k = 0 THEN <<>>
            ELSE IF k \in UnblockSet(iss, i) THEN Append(F[k - 1], iss[k].ID)
            ELSE F[k - 1]
    IN F[Len(iss)]

\* Neighbours that does not pass through closed issues
NeighboursNotClosed(iss, S) ==
    {j \in 1..Len(iss) :
        /\ iss[j].Status # StatusClosed
        /\ \/ \E e \in ForwardEdges(iss, j) : e.To \in S
           \/ \E i \in S : \E e \in ForwardEdges(iss, i) : e.To = j}

\* 4.3, tracks: the neighbours of S over edges of either kind, either way
Neighbours(iss, S) ==
    {j \in 1..Len(iss) :
        \/ \E e \in ForwardEdges(iss, j) : e.To \in S
        \/ \E i \in S : \E e \in ForwardEdges(iss, i) : e.To = j}

RECURSIVE Spread(_, _, _)
Spread(iss, frontier, seen) ==
    IF frontier = {} THEN seen
    ELSE LET next == Neighbours(iss, frontier) \ seen
         IN Spread(iss, next, seen \cup next)

\* the connected component of issue i
Component(iss, i) == Spread(iss, {i}, {i})

SetMin(S) == CHOOSE x \in S : \A y \in S : x <= y

\* the actionable issues of the component of i
TrackMembers(iss, i) == Component(iss, i) \cap Actionable(iss)

\* one representative per component that holds an actionable issue, in
\* snapshot order
TrackSeeds(iss) == {SetMin(TrackMembers(iss, i)) : i \in Actionable(iss)}

\* the order of the items of a track: priority, then the larger unblock set,
\* then the earlier creation, then the identifier
ItemBefore(iss, x, y) ==
    LET ux == Cardinality(UnblockSet(iss, x))
        uy == Cardinality(UnblockSet(iss, y))
    IN IF iss[x].Priority # iss[y].Priority THEN iss[x].Priority < iss[y].Priority
       ELSE IF ux # uy THEN ux > uy
       ELSE IF iss[x].CreatedAt # iss[y].CreatedAt THEN iss[x].CreatedAt < iss[y].CreatedAt
       ELSE IdLess(iss[x].ID, iss[y].ID)

RECURSIVE ItemOrder(_, _)
ItemOrder(iss, S) ==
    IF S = {} THEN <<>>
    ELSE LET m == CHOOSE x \in S : \A y \in S \ {x} : ItemBefore(iss, x, y)
         IN <<m>> \o ItemOrder(iss, S \ {m})

PlanItem(iss, i) ==
    [ID |-> iss[i].ID, Priority |-> iss[i].Priority, UnblocksIDs |-> UnblocksIDs(iss, i)]

\* the order that picks the highest-impact issue: the larger unblock set, then
\* priority, then the identifier
ImpactBefore(iss, x, y) ==
    LET ux == Cardinality(UnblockSet(iss, x))
        uy == Cardinality(UnblockSet(iss, y))
    IN IF ux # uy THEN ux > uy
       ELSE IF iss[x].Priority # iss[y].Priority THEN iss[x].Priority < iss[y].Priority
       ELSE IdLess(iss[x].ID, iss[y].ID)

HighestImpact(iss) ==
    CHOOSE x \in Actionable(iss) : \A y \in Actionable(iss) \ {x} : ImpactBefore(iss, x, y)

\* tracks are named in the order their components are met in the snapshot
SeedRank(iss, seed) == Cardinality({t \in TrackSeeds(iss) : t <= seed})

MostUrgent(iss, seed) == SetMin({iss[i].Priority : i \in TrackMembers(iss, seed)})

\* the order of the tracks: the track of the highest-impact issue, then the
\* more urgent track, then the track identifier
TrackBefore(iss, s, t) ==
    LET top == HighestImpact(iss)
    IN IF (top \in TrackMembers(iss, s)) # (top \in TrackMembers(iss, t))
       THEN top \in TrackMembers(iss, s)
       ELSE IF MostUrgent(iss, s) # MostUrgent(iss, t)
       THEN MostUrgent(iss, s) < MostUrgent(iss, t)
       ELSE SeedRank(iss, s) < SeedRank(iss, t)

RECURSIVE TrackOrder(_, _)
TrackOrder(iss, S) ==
    IF S = {} THEN <<>>
    ELSE LET m == CHOOSE s \in S : \A t \in S \ {s} : TrackBefore(iss, s, t)
         IN <<m>> \o TrackOrder(iss, S \ {m})

EmptySummary == [HighestImpact |-> <<>>, ImpactReason |-> "", UnblocksCount |-> 0]

\* 4.3: the plan of a snapshot
BuildExecutionPlan(iss) ==
    LET seeds == TrackOrder(iss, TrackSeeds(iss))
    IN [Tracks |-> [t \in 1..Len(seeds) |->
                      LET order == ItemOrder(iss, TrackMembers(iss, seeds[t]))
                      IN [TrackID |-> <<"t", "r", "a", "c", "k", "-",
                                        Upper[SeedRank(iss, seeds[t])]>>,
                          Reason |-> "",
                          Items |-> [k \in 1..Len(order) |-> PlanItem(iss, order[k])]]],
        Summary |-> IF Actionable(iss) = {} THEN EmptySummary
                    ELSE [HighestImpact |-> iss[HighestImpact(iss)].ID,
                          ImpactReason |-> "unblocks",
                          UnblocksCount |->
                              Cardinality(UnblockSet(iss, HighestImpact(iss)))]]

-----------------------------------------------------------------------------
(* Planning: the caller plans a snapshot, the snapshot moves on by one      *)
(* change, the caller plans again.                                          *)

MaxPlanIssues == 3

Planned == ret # <<>> /\ ret[1].Kind = "plan"

\* a new plan of the snapshot, handed to a new ActionableModel
BuildExecutionPlanCall ==
    /\ pc = "idle"
    /\ IF Planned THEN ret[1].Value.Issues # issues ELSE TRUE
    /\ plan' = BuildExecutionPlan(issues)
    /\ selectedTrack' = 0
    /\ selectedItem' = 0
    /\ scrollOffset' = 0
    /\ width' = 0
    /\ height' = 0
    /\ prev' = ret
    /\ ret' = <<[Kind |-> "plan", Err |-> "", Value |-> [Issues |-> issues, Plan |-> plan']]>>
    /\ UNCHANGED <<layoutVars, layout, callerVars>>

\* the next snapshot: one issue has been closed, nothing else has changed
CloseIssue ==
    /\ Planned /\ prev = <<>> /\ ret[1].Value.Issues = issues
    /\ \E i \in 1..Len(issues) :
        /\ issues[i].Status # StatusClosed
        /\ issues' = [issues EXCEPT ![i].Status = StatusClosed]
    /\ UNCHANGED <<layoutVars, layout, prev, ret, uiVars, issues0, stats, opts>>

\* the next snapshot: one issue without dependencies has been given one
LinkIssues ==
    /\ Planned /\ prev = <<>> /\ ret[1].Value.Issues = issues
    /\ \E i \in 1..Len(issues) : \E j \in 1..Len(issues) : \E type \in DepTypes :
        /\ i # j
        /\ issues[i].Dependencies = <<>>
        /\ issues' = [issues EXCEPT ![i].Dependencies =
                                        <<[DependsOnID |-> issues[j].ID, Type |-> type]>>]
    /\ UNCHANGED <<layoutVars, layout, prev, ret, uiVars, issues0, stats, opts>>

\* no dependency, or a blocking one on any other issue or on an absent one,
\* or a related one on the issue before
OneDepPool(n, i) ==
    {<<>>, <<[DependsOnID |-> Ghost, Type |-> DepBlocks]>>}
    \cup {<<[DependsOnID |-> id, Type |-> DepBlocks]>> : id \in SnapshotIDs(n) \ {IssueID(i)}}
    \cup {<<[DependsOnID |-> IssueID(j), Type |-> DepRelated]>> : j \in {i - 1} \ {0}}

\* snapshots of every shape of graph, of open and closed issues
PlanShapes ==
    \E n \in 0..MaxPlanIssues :
    \E status \in [1..n -> {StatusOpen, StatusClosed}] :
    \E deps \in [1..n -> UNION {OneDepPool(n, i) : i \in 1..n}] :
        /\ \A i \in 1..n : deps[i] \in OneDepPool(n, i)
        /\ issues = [i \in 1..n |->
                        [ID |-> IssueID(i), Status |-> status[i], Priority |-> 2,
                         CreatedAt |-> i, Dependencies |-> deps[i]]]

PriorityPatterns == {"same", "rising", "falling"}

\* chains of issues of every status: each issue depends on the one before
\* it, the last also on the first
PlanStatuses ==
    \E n \in 1..MaxPlanIssues :
    \E status \in [1..n -> Statuses] :
    \E step \in DepTypes : \E back \in DepTypes : \E pattern \in PriorityPatterns :
        issues = [i \in 1..n |->
                    [ID |-> IssueID(i), Status |-> status[i],
                     Priority |-> IF pattern = "same" THEN 1
                                  ELSE IF pattern = "rising" THEN i - 1 ELSE n - i,
                     CreatedAt |-> i,
                     Dependencies |->
                        (IF i > 1 THEN <<[DependsOnID |-> IssueID(i - 1), Type |-> step]>>
                         ELSE <<>>)
                        \o (IF i = n /\ n > 2
                            THEN <<[DependsOnID |-> IssueID(1), Type |-> back]>>
                            ELSE <<>>)]]

\* open issues of every priority, apart or with the last blocked by the first
PlanPriorities ==
    \E n \in 1..MaxPlanIssues :
    \E priority \in [1..n -> PriorityPool] :
    \E blocked \in BOOLEAN :
        issues = [i \in 1..n |->
                    [ID |-> IssueID(i), Status |-> StatusOpen, Priority |-> priority[i],
                     CreatedAt |-> i,
                     Dependencies |->
                        IF blocked /\ i = n /\ n > 1
                        THEN <<[DependsOnID |-> IssueID(1), Type |-> DepBlocks]>>
                        ELSE <<>>]]

InitPlan ==
    /\ PlanShapes \/ PlanStatuses \/ PlanPriorities
    /\ issues0 = issues
    /\ stats = NoStats
    /\ opts = ZeroOptions
    /\ IdleLayout
    /\ NoActionableModel

NextPlan ==
    \/ BuildExecutionPlanCall
    \/ CloseIssue
    \/ LinkIssues

SpecPlan == InitPlan /\ [][NextPlan]_vars

-----------------------------------------------------------------------------
(* Claims about the plan *)

PlanNow == ret[1].Value.Plan

SnapshotNow == ret[1].Value.Issues

PlannedTwice == Planned /\ prev # <<>>

PlanBefore == prev[1].Value.Plan

SnapshotBefore == prev[1].Value.Issues

\* the identifiers of the items of the tracks of a plan
ItemIDs(p) ==
    UNION {{p.Tracks[t].Items[k].ID : k \in 1..Len(p.Tracks[t].Items)} :
              t \in 1..Len(p.Tracks)}

Workable(iss, i) ==
    /\ iss[i].Status = StatusOpen \/ iss[i].Status = StatusInProgress
    /\ \A k \in 1..Len(iss[i].Dependencies) : \A j \in 1..Len(iss) :
         (iss[i].Dependencies[k].Type = DepBlocks
            /\ iss[i].Dependencies[k].DependsOnID = iss[j].ID)
         => iss[j].Status = StatusClosed

\* issue a is open and has no Blocks dependency, issue b is open and its
\* only dependency is a Blocks dependency on a
BlockedPair(iss, a, b) ==
    /\ a # b
    /\ iss[a].Status = StatusOpen
    /\ \A k \in 1..Len(iss[a].Dependencies) : iss[a].Dependencies[k].Type # DepBlocks
    /\ iss[b].Status = StatusOpen
    /\ iss[b].Dependencies = <<[DependsOnID |-> iss[a].ID, Type |-> DepBlocks]>>

\* C11: the issues of a plan are exactly the issues that are open or in
\* progress and have no Blocks dependency on an issue of the snapshot that is
\* not closed (Related dependencies and absent targets do not count; blocked
\* and closed issues are never planned); so an open B blocked only by an open
\* A is not planned while A is planned, and is planned once A is closed and
\* nothing else has changed.
C11_Actionability ==
    /\ Planned =>
        \A i \in 1..Len(SnapshotNow) :
            SnapshotNow[i].ID \in ItemIDs(PlanNow) <=> Workable(SnapshotNow, i)
    /\ PlannedTwice =>
        \A a \in 1..Len(SnapshotBefore) : \A b \in 1..Len(SnapshotBefore) :
            (/\ BlockedPair(SnapshotBefore, a, b)
             /\ SnapshotNow = [SnapshotBefore EXCEPT ![a].Status = StatusClosed])
            => /\ SnapshotBefore[a].ID \in ItemIDs(PlanBefore)
               /\ SnapshotBefore[b].ID \notin ItemIDs(PlanBefore)
               /\ SnapshotNow[b].ID \in ItemIDs(PlanNow)
               /\ SnapshotNow[a].ID \notin ItemIDs(PlanNow)

\* the plan after A was closed, in a snapshot that also holds an issue with a
\* Related dependency or an absent target that is planned all the same
C11_Witness ==
    /\ PlannedTwice
    /\ \E a \in 1..Len(SnapshotBefore) : \E b \in 1..Len(SnapshotBefore) :
        /\ BlockedPair(SnapshotBefore, a, b)
        /\ SnapshotNow = [SnapshotBefore EXCEPT ![a].Status = StatusClosed]
        /\ SnapshotNow[b].ID \in ItemIDs(PlanNow)
    /\ \E c \in 1..Len(SnapshotNow) :
        /\ SnapshotNow[c].Dependencies # <<>>
        /\ SnapshotNow[c].Dependencies[1].Type = DepRelated
        /\ SnapshotNow[c].ID \in ItemIDs(PlanNow)

\* the places (track, position) of a plan that hold the identifier
PlacesOf(p, id) ==
    {<<t, k>> \in (1..Len(p.Tracks)) \X (1..MaxPlanIssues + 1) :
        k <= Len(p.Tracks[t].Items) /\ p.Tracks[t].Items[k].ID = id}

SameTrack(p, x, y) ==
    \E t \in 1..Len(p.Tracks) : \E k \in 1..Len(p.Tracks[t].Items) :
    \E l \in 1..Len(p.Tracks[t].Items) :
        p.Tracks[t].Items[k].ID = x /\ p.Tracks[t].Items[l].ID = y

\* issue i names issue j in a dependency of either kind
DependsOn(iss, i, j) ==
    \E k \in 1..Len(iss[i].Dependencies) : iss[i].Dependencies[k].DependsOnID = iss[j].ID

\* the pairs of issues joined by an undirected path of dependencies
Connected(iss) ==
    LET n == Len(iss)
        W[k \in 0..n] ==
            IF k = 0
            THEN {q \in (1..n) \X (1..n) :
                    q[1] = q[2] \/ DependsOn(iss, q[1], q[2]) \/ DependsOn(iss, q[2], q[1])}
            ELSE {q \in (1..n) \X (1..n) :
                    q \in W[k - 1] \/ (<<q[1], k>> \in W[k - 1] /\ <<k, q[2]>> \in W[k - 1])}
    IN W[n]

\* the snapshot has moved on by one dependency of issue i on issue j
LinkedSince(before, now, i, j) ==
    /\ before[i].Dependencies = <<>>
    /\ \E type \in DepTypes :
        now = [before EXCEPT ![i].Dependencies =
                                <<[DependsOnID |-> before[j].ID, Type |-> type]>>]

\* C12: every actionable issue is an item of exactly one track and no other
\* issue is an item of any; two actionable issues are items of the same track
\* exactly when an undirected path of dependencies of any kind, through any
\* issues of the snapshot, joins them; so two actionable issues of different
\* tracks that stay actionable share a track once a dependency joins their
\* groups.
C12_TrackPartition ==
    /\ Planned =>
        /\ \A i \in 1..Len(SnapshotNow) :
            Cardinality(PlacesOf(PlanNow, SnapshotNow[i].ID))
                = IF Workable(SnapshotNow, i) THEN 1 ELSE 0
        /\ \A t \in 1..Len(PlanNow.Tracks) :
            /\ PlanNow.Tracks[t].Items # <<>>
            /\ \A k \in 1..Len(PlanNow.Tracks[t].Items) :
                PlanNow.Tracks[t].Items[k].ID \in IssueIDs(SnapshotNow)
        /\ \A i \in 1..Len(SnapshotNow) : \A j \in 1..Len(SnapshotNow) :
            (Workable(SnapshotNow, i) /\ Workable(SnapshotNow, j))
            => (SameTrack(PlanNow, SnapshotNow[i].ID, SnapshotNow[j].ID)
                    <=> <<i, j>> \in Connected(SnapshotNow))
    /\ PlannedTwice =>
        \A i \in 1..Len(SnapshotBefore) : \A j \in 1..Len(SnapshotBefore) :
            (/\ i # j
             /\ LinkedSince(SnapshotBefore, SnapshotNow, i, j)
             /\ Workable(SnapshotBefore, i) /\ Workable(SnapshotBefore, j)
             /\ Workable(SnapshotNow, i) /\ Workable(SnapshotNow, j))
            => SameTrack(PlanNow, SnapshotNow[i].ID, SnapshotNow[j].ID)

\* two groups, one of them with a dependency inside, planned as two tracks
\* and, after one dependency across, as one
C12_Witness ==
    /\ PlannedTwice
    /\ Len(PlanBefore.Tracks) = 2
    /\ Len(PlanNow.Tracks) = 1
    /\ \E i \in 1..Len(SnapshotBefore) : \E j \in 1..Len(SnapshotBefore) :
        /\ i # j
        /\ LinkedSince(SnapshotBefore, SnapshotNow, i, j)
        /\ ~SameTrack(PlanBefore, SnapshotBefore[i].ID, SnapshotBefore[j].ID)
        /\ SameTrack(PlanNow, SnapshotNow[i].ID, SnapshotNow[j].ID)
    /\ \E c \in 1..Len(SnapshotBefore) : \E d \in 1..Len(SnapshotBefore) :
        c # d /\ DependsOn(SnapshotBefore, c, d)

\* issue j has a Blocks dependency on issue i
Blocks(iss, j, i) ==
    \E k \in 1..Len(iss[j].Dependencies) :
        /\ iss[j].Dependencies[k].Type = DepBlocks
        /\ iss[j].Dependencies[k].DependsOnID = iss[i].ID

\* the pairs <<i, j>> with a chain of Blocks dependencies from j down to i
BlocksChain(iss) ==
    LET n == Len(iss)
        W[k \in 0..n] ==
            IF k = 0
            THEN {q \in (1..n) \X (1..n) : Blocks(iss, q[2], q[1])}
            ELSE {q \in (1..n) \X (1..n) :
                    q \in W[k - 1] \/ (<<q[1], k>> \in W[k - 1] /\ <<k, q[2]>> \in W[k - 1])}
    IN W[n]

\* the identifiers of the issues that are not closed and hang on issue i
Freed(iss, i) ==
    {iss[j].ID : j \in {j \in 1..Len(iss) :
                          <<i, j>> \in BlocksChain(iss) /\ iss[j].Status # StatusClosed}}

AllItems(p) ==
    UNION {{p.Tracks[t].Items[k] : k \in 1..Len(p.Tracks[t].Items)} :
              t \in 1..Len(p.Tracks)}

\* C13: in a plan of one track or more, Summary.HighestImpact is an item of
\* the first track; no item of any track unblocks more than it, of those that
\* unblock as many none has a lower priority number, and of those of the same
\* priority none an earlier identifier; Summary.UnblocksCount is the size of
\* its unblock set; and the unblock set of every item is the set of issues
\* that are not closed and are reached from it over reverse Blocks
\* dependencies.
C13_HighestImpact ==
    (Planned /\ PlanNow.Tracks # <<>>) =>
        /\ \E k \in 1..Len(PlanNow.Tracks[1].Items) :
            LET top == PlanNow.Tracks[1].Items[k]
            IN /\ top.ID = PlanNow.Summary.HighestImpact
               /\ PlanNow.Summary.UnblocksCount = Len(top.UnblocksIDs)
               /\ \A x \in AllItems(PlanNow) :
                    /\ Len(x.UnblocksIDs) <= Len(top.UnblocksIDs)
                    /\ Len(x.UnblocksIDs) = Len(top.UnblocksIDs)
                        => /\ top.Priority <= x.Priority
                           /\ top.Priority = x.Priority
                                => (x.ID = top.ID \/ IdLess(top.ID, x.ID))
        /\ \A i \in 1..Len(SnapshotNow) : \A x \in AllItems(PlanNow) :
            x.ID = SnapshotNow[i].ID
            => /\ Range(x.UnblocksIDs) = Freed(SnapshotNow, i)
               /\ Len(x.UnblocksIDs) = Cardinality(Freed(SnapshotNow, i))

\* a plan of two tracks whose first track is not the first met in the
\* snapshot, because it holds the issue that unblocks another
C13_Witness ==
    /\ Planned
    /\ Len(PlanNow.Tracks) > 1
    /\ PlanNow.Summary.UnblocksCount > 0
    /\ PlanNow.Tracks[1].TrackID # <<"t", "r", "a", "c", "k", "-", "A">>

-----------------------------------------------------------------------------
(* Claims about the layout, continued *)

\* C14: in the layout of a snapshot that is not empty every node keeps 100
\* units from the left, right and bottom edge and 200 from the top (the
\* padding and the header band): X - Radius >= 100, X + Radius <= Width - 100,
\* Y - Radius >= 200, Y + Radius <= Height - 100; some node meets each of the
\* four bounds exactly; and MinX = MinY = 0, MaxX = Width, MaxY = Height.
C14_PaddedCanvas ==
    (Returned /\ Out.Nodes # <<>>) =>
        LET ns == Out.Nodes
            N == 1..Len(ns)
        IN /\ \A i \in N :
                /\ ns[i].X - ns[i].Radius >= Padding
                /\ ns[i].X + ns[i].Radius <= Out.Width - Padding
                /\ ns[i].Y - ns[i].Radius >= Padding + HeaderHeight
                /\ ns[i].Y + ns[i].Radius <= Out.Height - Padding
           /\ \E i \in N : ns[i].X - ns[i].Radius = Padding
           /\ \E i \in N : ns[i].X + ns[i].Radius = Out.Width - Padding
           /\ \E i \in N : ns[i].Y - ns[i].Radius = Padding + HeaderHeight
           /\ \E i \in N : ns[i].Y + ns[i].Radius = Out.Height - Padding
           /\ Out.MinX = 0 /\ Out.MinY = 0
           /\ Out.MaxX = Out.Width /\ Out.MaxY = Out.Height

\* a simulated layout of nodes of two sizes, one at the left bound and
\* another at the right
C14_Witness ==
    /\ Returned
    /\ layout[1].Opts.Iterations > 0
    /\ Len(Out.Nodes) > 1
    /\ \E i \in 1..Len(Out.Nodes) : \E j \in 1..Len(Out.Nodes) :
        /\ Out.Nodes[i].Radius # Out.Nodes[j].Radius
        /\ Out.Nodes[i].X - Out.Nodes[i].Radius = Padding
        /\ Out.Nodes[j].X + Out.Nodes[j].Radius = Out.Width - Padding

\* the temperature (in hundredths) of iteration k on a canvas: half the
\* canvas, times 0.97 for every iteration before
RECURSIVE Annealed(_, _)
Annealed(canvas, k) ==
    IF k = 0 THEN 50 * canvas ELSE (Annealed(canvas, k - 1) * 97) \div 100

\* how far node i moves in the step, rounded down
Moved(i) ==
    Sqrt((nodes'[i].X - nodes[i].X) * (nodes'[i].X - nodes[i].X)
            + (nodes'[i].Y - nodes[i].Y) * (nodes'[i].Y - nodes[i].Y))

\* C15: the temperature of iteration k is canvasSize/2 times 0.97 to the k;
\* in iteration k no node moves further than Damping times that temperature;
\* and with Damping at most 1 this limit is smaller in every iteration than
\* in the one before.
C15_Annealing ==
    [][/\ (pc = "idle" /\ pc' = "loop") =>
            temperature' = Annealed(Max(MinCanvas, Sqrt(Len(issues) * 40000)), 0)
       /\ pc \in {"repel", "attract", "apply"} =>
            temperature = Annealed(Max(MinCanvas, Sqrt(Len(issues) * 40000)), iter)
       /\ pc = "apply" =>
            /\ \A i \in 1..Len(nodes) : Moved(i) * 10000 <= lo.Damping * temperature
            /\ iter' = iter + 1
            /\ (lo.Damping > 0 /\ lo.Damping <= 100) =>
                    lo.Damping * temperature' < lo.Damping * temperature]_vars

\* the move of the second iteration about to happen, with a node pushed
\* harder than the temperature lets it move
C15_Witness ==
    /\ pc = "apply"
    /\ iter = 1
    /\ \E i \in 1..Len(nodes) :
        Sqrt(nodes[i].Vx * nodes[i].Vx + nodes[i].Vy * nodes[i].Vy) * 100 > temperature

-----------------------------------------------------------------------------
(* Claims about the layout options *)

\* the defaults as documented, in the units of the model (AttractForce in
\* thousandths, Damping in hundredths)
DocumentedDefaults ==
    [Iterations |-> 300, RepelForce |-> 8000, AttractForce |-> 15, Damping |-> 85,
     MinNodeSize |-> 24, MaxNodeSize |-> 60]

\* the value the running call must work with for option f, when called with v
Effective(f, v) == IF v = 0 THEN DocumentedDefaults[f] ELSE v

\* what the running call was handed for option f: the caller's own value, or
\* for a snapshot the values of the preset and zero for the rest
Handed(f) ==
    IF stack # "snapshot" THEN opts[f]
    ELSE IF opts.Preset = "Roomy" /\ f = "MinNodeSize" THEN 30
    ELSE IF opts.Preset = "Roomy" /\ f = "MaxNodeSize" THEN 70
    ELSE IF opts.Preset = "Roomy" /\ f = "RepelForce" THEN 12000
    ELSE 0

-----------------------------------------------------------------------------
(* Claims about the actionable view *)

\* every track of the plan has an item, and there is a track
TracksFilled == NumTracks > 0 /\ \A t \in 1..NumTracks : Len(ItemsOf(t)) > 0

\* the places, counted from 0, of the selected item's line in the full list
SelectedLines == {k \in 0..(Len(AllLines) - 1) : AllLines[k + 1].Selected}

\* the selected item's line is one of the lines Render returns
SelectionVisible == \E k \in SelectedLines : StartLine <= k /\ k < EndLine

\* C17: for a plan whose tracks all hold items, with or without the summary
\* banner, and a positive width and height, the line of the selected item is
\* among the lines Render returns after every MoveUp and every MoveDown.
C17_SelectionStaysVisible ==
    [][(/\ MoveUp \/ MoveDown
        /\ TracksFilled
        /\ width > 0
        /\ height > 0) => SelectionVisible']_vars

-----------------------------------------------------------------------------
(* Claims about the report *)

\* a report has been written to the file
Written == ret # <<>> /\ ret[1].Kind = "file" /\ ret[1].Err = ""

Report == ret[1].Value

\* the issue the caller handed over under this ID
Handed0(id) == issues0[CHOOSE k \in 1..Len(issues0) : issues0[k].ID = id]

IsClosed(is) == is.Status = StatusClosed

\* the IDs of the graph's node lines, in the order of the lines
RECURSIVE NodeLabels(_)
NodeLabels(graph) ==
    IF graph = <<>> THEN <<>>
    ELSE (IF Head(graph).Line = "node" THEN <<Head(graph).Label>> ELSE <<>>)
         \o NodeLabels(Tail(graph))

\* C18: the report SaveMarkdownToFile writes lists every issue once, no
\* closed issue before a non-closed one, among issues alike in that no higher
\* priority number before a lower one, among those of one priority no older
\* issue before a newer one; the table of contents, the graph's nodes and the
\* sections are in that one order.
C18_ReportOrder ==
    Written =>
        LET ids == [k \in 1..Len(Report.Contents) |-> Report.Contents[k].ID]
        IN /\ Len(ids) = Len(issues0)
           /\ {ids[k] : k \in 1..Len(ids)} = {issues0[k].ID : k \in 1..Len(issues0)}
           /\ \A i \in 1..Len(ids) : \A j \in (i + 1)..Len(ids) :
                LET a == Handed0(ids[i])
                    b == Handed0(ids[j])
                IN /\ IsClosed(a) => IsClosed(b)
                   /\ IsClosed(a) = IsClosed(b) => a.Priority <= b.Priority
                   /\ (IsClosed(a) = IsClosed(b) /\ a.Priority = b.Priority) =>
                            a.CreatedAt >= b.CreatedAt
           /\ NodeLabels(Report.Graph) = ids
           /\ [k \in 1..Len(Report.Sections) |-> Report.Sections[k].ID] = ids

\* a written report of a list handed over with the older of two issues of
\* one closed-ness and priority first: the report has the newer one first
C18_Witness ==
    /\ Written
    /\ Len(issues0) > 1
    /\ IsClosed(issues0[1]) = IsClosed(issues0[2])
    /\ issues0[1].Priority = issues0[2].Priority
    /\ issues0[1].CreatedAt < issues0[2].CreatedAt
    /\ Report.Contents[1].ID = issues0[2].ID

\* C19: for a plan whose tracks all hold an item, in every state reached from
\* NewActionableModel by MoveUp, MoveDown and SetSize the selected track is
\* one of the tracks, the selected item is one of its items, scrollOffset is
\* not negative, and SelectedIssueID is the ID of that item.
C19_SelectionInRange ==
    TracksFilled =>
        /\ 0 <= selectedTrack
        /\ selectedTrack < Len(plan.Tracks)
        /\ 0 <= selectedItem
        /\ selectedItem < Len(plan.Tracks[selectedTrack + 1].Items)
        /\ scrollOffset >= 0
        /\ SelectedIssueID = plan.Tracks[selectedTrack + 1].Items[selectedItem + 1].ID

\* the last item of a later track selected, the view scrolled, in a sized
\* model
C19_Witness ==
    /\ TracksFilled
    /\ selectedTrack > 0
    /\ selectedItem > 0
    /\ selectedItem = Len(plan.Tracks[selectedTrack + 1].Items) - 1
    /\ scrollOffset > 0
    /\ height > 0

\* the IDs of the items of the selected track, when there is such a track
SelectedTrackIDs ==
    IF selectedTrack >= 0 /\ selectedTrack < Len(plan.Tracks)
    THEN {plan.Tracks[selectedTrack + 1].Items[i].ID :
             i \in 1..Len(plan.Tracks[selectedTrack + 1].Items)}
    ELSE {}

\* C20: for every plan, tracks without items included, after any MoveUp and
\* MoveDown the selected item is never negative and SelectedIssueID does not
\* fail: it is the empty string or the ID of an item of the selected track.
C20_SelectedIssueIDTotal ==
    /\ selectedItem >= 0
    /\ SelectedIssueID # Panic
    /\ SelectedIssueID \in {<<>>} \cup SelectedTrackIDs

\* the IDs of the items of the plan in plan order: tracks in order, items in
\* order within each track
RECURSIVE PlanOrderFrom(_)
PlanOrderFrom(t) ==
    IF t > Len(plan.Tracks) THEN <<>>
    ELSE [i \in 1..Len(plan.Tracks[t].Items) |-> plan.Tracks[t].Items[i].ID]
         \o PlanOrderFrom(t + 1)

PlanOrder == PlanOrderFrom(1)

\* how many items come before the first item of the selected track
RECURSIVE ItemsBefore(_)
ItemsBefore(t) == IF t = 0 THEN 0 ELSE ItemsBefore(t - 1) + Len(plan.Tracks[t].Items)

\* the position, counted from 0, of the selection in plan order
PositionInPlan == ItemsBefore(selectedTrack) + selectedItem

\* C21: on a plan whose tracks all hold items the new model selects position
\* 0 of the plan order; every MoveDown below the last position selects the
\* next position and its item, so the k-th MoveDown in a row selects position
\* k and every item is selected once on the way down; MoveDown on the last
\* position and MoveUp on the first leave the selection where it is.
C21_MoveDownTraversal ==
    /\ TracksFilled => PositionInPlan = 0 /\ SelectedIssueID = PlanOrder[1]
    /\ [][TracksFilled =>
            /\ MoveDown =>
                    /\ PositionInPlan' =
                            IF PositionInPlan < Len(PlanOrder) - 1
                            THEN PositionInPlan + 1 ELSE PositionInPlan
                    /\ SelectedIssueID' = PlanOrder[PositionInPlan' + 1]
                    /\ PositionInPlan = Len(PlanOrder) - 1 =>
                            UNCHANGED <<selectedTrack, selectedItem>>
            /\ (MoveUp /\ PositionInPlan = 0) =>
                    UNCHANGED <<selectedTrack, selectedItem>>]_vars

\* the last item of a plan of several tracks, reached over a track boundary
C21_Witness ==
    /\ TracksFilled
    /\ Len(plan.Tracks) > 1
    /\ Len(PlanOrder) > 2
    /\ PositionInPlan = Len(PlanOrder) - 1
    /\ SelectedIssueID = PlanOrder[Len(PlanOrder)]

\* the selection (track, item), both counted from 0, at position p of the
\* plan order
SelectionAt(p) ==
    CHOOSE sel \in (0..(Len(plan.Tracks) - 1)) \X (0..Len(PlanOrder)) :
        /\ sel[2] < Len(plan.Tracks[sel[1] + 1].Items)
        /\ ItemsBefore(sel[1]) + sel[2] = p

\* C22: on a plan whose tracks all hold items the selection is the one of
\* its position in plan order; MoveDown anywhere but on the last position
\* selects the position after, MoveUp anywhere but on the first selects the
\* position before, also from one track into another. So MoveUp after
\* MoveDown, and MoveDown after MoveUp, select what was selected before.
C22_MovesAreInverse ==
    [][TracksFilled =>
        /\ <<selectedTrack, selectedItem>> = SelectionAt(PositionInPlan)
        /\ (MoveDown /\ PositionInPlan < Len(PlanOrder) - 1) =>
                <<selectedTrack', selectedItem'>> = SelectionAt(PositionInPlan + 1)
        /\ (MoveUp /\ PositionInPlan > 0) =>
                <<selectedTrack', selectedItem'>> = SelectionAt(PositionInPlan - 1)]_vars

\* the last of several items of the first track selected with the view
\* scrolled down: the selection has come back up from the second track
C22_Witness ==
    /\ TracksFilled
    /\ Len(plan.Tracks) > 1
    /\ selectedTrack = 0
    /\ selectedItem > 0
    /\ selectedItem = Len(plan.Tracks[1].Items) - 1
    /\ scrollOffset > 0

-----------------------------------------------------------------------------
(* Claims about the renderers *)

\* a renderer has returned
Rendered == ret # <<>> /\ ret[1].Kind \in {"png", "svg"} /\ layout # <<>>

\* C23: whatever the length of the layout's DataHash, neither renderer
\* fails on it, and the header of either drawing shows the first 8 characters
\* of the hash when the hash has 8 or more and no hash otherwise.
C23_HashHandledAlike ==
    Rendered =>
        /\ ret[1].Err # "panic"
        /\ ret[1].Value # <<>> =>
                ret[1].Value.Header.Hash =
                    IF Len(Out.DataHash) >= 8 THEN SubSeq(Out.DataHash, 1, 8) ELSE <<>>

-----------------------------------------------------------------------------
(* Claims about the Mermaid graph *)

\* a report has been generated, by GenerateMarkdown or for a file
Reported == ret # <<>> /\ ret[1].Kind \in {"markdown", "file"} /\ ret[1].Value # <<>>

\* the lines of the graph of the report of one kind
GraphLines(kind) == {k \in 1..Len(Report.Graph) : Report.Graph[k].Line = kind}

\* the characters a Mermaid node identifier may hold
NodeChars == Range(Lower) \cup Range(Upper) \cup Digits \cup {"-", "_"}

\* C24: in the graph of a report every node identifier is non-empty and
\* made of letters, digits, '-' and '_'; issues of different IDs have
\* different node identifiers, so each identifier is defined once, classed
\* once, and each end of every edge names the node of one issue only.
C24_DistinctMermaidNodes ==
    Reported =>
        /\ \A k \in GraphLines("node") :
                /\ Report.Graph[k].Node # <<>>
                /\ Range(Report.Graph[k].Node) \subseteq NodeChars
        /\ \A k \in GraphLines("node") : \A m \in GraphLines("node") :
                Report.Graph[k].Label # Report.Graph[m].Label =>
                    Report.Graph[k].Node # Report.Graph[m].Node
        /\ \A k \in GraphLines("class") : \A m \in GraphLines("class") :
                k # m => Report.Graph[k].Node # Report.Graph[m].Node
        /\ \A e \in GraphLines("edge") :
                /\ Cardinality({k \in GraphLines("node") :
                                    Report.Graph[k].Node = Report.Graph[e].From}) = 1
                /\ Cardinality({k \in GraphLines("node") :
                                    Report.Graph[k].Node = Report.Graph[e].To}) = 1

=============================================================================
